---- MODULE Spec2Model ----
(***************************************************************************)
(* Document analysis pipeline of AnswerLense: the persisted analysis       *)
(* record and its status field, the OCR retry loop, and the two upload     *)
(* handlers that orchestrate validation, OCR, AI analysis and persistence. *)
(*                                                                         *)
(* The specifications share the variables below:                           *)
(*   SpecRecord  the Analysis document of server/models/Analysis.js and    *)
(*               its updateStatus method;                                  *)
(*   SpecRetry   performOCRWithRetry / extractText, for every maxRetries;  *)
(*   Spec        the upload handlers, one request at a time;               *)
(*   SpecBatch   processMultipleImages, the multi-page OCR batch;          *)
(*   SpecMulti   analyzeMultipleChunks of both AI processors;              *)
(*   SpecValidate, SpecChunk, SpecParse, SpecDedup, SpecConfidence,        *)
(*   SpecClean, SpecDelete                                                 *)
(*               validateFile, chunkText, the response parsers,            *)
(*               deduplicateSuggestions, the OCR result builders, the text *)
(*               cleaners and deleteFile, each applied to every input of a *)
(*               bounded set;                                              *)
(*   SpecCalls   the recognition calls while they are pending, and         *)
(*               SpecCallsFair, the same under weak fairness.              *)
(***************************************************************************)
EXTENDS Integers, Sequences, FiniteSets, TLC

VARIABLES
  doc,        \* the in-memory Analysis document (this) of Analysis.js:8-254
  stored,     \* the copy of it in the record store
  visited,    \* the status values the stored record has held before the current one
  impl,       \* which OCR entry point runs: "performOCRWithRetry" or "extractText"
  maxRetries, \* the maxRetries argument of performOCRWithRetry
  attempt,    \* the loop variable of performOCRWithRetry
  rpc,        \* position of the OCR call: "idle", "try", "wait", "returned", "thrown"
  engineLog,  \* outcome of every Tesseract.recognize call made so far, in order
  waits,      \* every delay slept between attempts so far, in milliseconds
  lastError,  \* the error the retry loop would throw: "none", "engine", "insufficient", "access"
  ocrText,    \* the text of the recognition result returned to the caller
  engineScript, \* what the recognition engine does on its 1st, 2nd, ... call
  route,      \* the upload handler serving the request: "esm" or "cjs"
  file,       \* req.file as delivered by the upload transport
  env,        \* what the model service and the database do during this request
  pc,         \* position of the handler
  db,         \* the Analysis document of this request in the record store
  analysisId, \* the handler's analysisId: FALSE is null, TRUE the id of db
  failure,    \* the stage whose failure the handler has observed
  response,   \* the HTTP response sent
  text,       \* the extracted text the handler holds
  aiCalls,    \* number of calls of aiProcessor.analyzeText / analyzeDocument
  openai,     \* AIProcessor.openai: "null" until getOpenAI() creates the client
  pages,      \* processMultipleImages: per page, where its processImage call stands
  batch,      \* processMultipleImages: "idle", "running", "returned" or "thrown"
  results,    \* processMultipleImages: the page numbers pushed to results, in order
  aiImpl,     \* the AIProcessor whose analyzeMultipleChunks runs: "openai" or "gemini"
  chunks,     \* analyzeMultipleChunks: per chunk, where its analyzeSingleChunk call stands
  completion, \* the chunk indices in the order their model calls settled
  chunkAnalyses, \* the chunkAnalyses array as analyzeMultipleChunks has it
  multi,      \* position of analyzeMultipleChunks and of the analyze* call around it
  aiResult,   \* what the analysis call returned to its caller
  call,       \* the library function under test and its argument
  ret         \* what that function returned, or that it threw

recordVars == <<doc, stored, visited>>
retryVars == <<impl, maxRetries, attempt, rpc, engineLog, waits, lastError, ocrText>>
handlerVars == <<route, file, env, pc, db, analysisId, failure, response, text, aiCalls>>
batchVars == <<pages, batch, results>>
multiVars == <<aiImpl, chunks, completion, chunkAnalyses, multi, aiResult>>
fnVars == <<call, ret>>
libVars == <<batchVars, multiVars, fnVars>>
vars == <<recordVars, retryVars, engineScript, handlerVars, openai, libVars>>

\* no multi-page batch is running
BatchIdle ==
  /\ pages = <<>>
  /\ batch = "idle"
  /\ results = <<>>

\* no multi-chunk analysis is running
MultiIdle ==
  /\ aiImpl = "openai"
  /\ chunks = <<>>
  /\ completion = <<>>
  /\ chunkAnalyses = <<>>
  /\ multi = "idle"
  /\ aiResult = [settled |-> FALSE]

\* no library function is being exercised
FnIdle ==
  /\ call = [fn |-> "none"]
  /\ ret = [done |-> FALSE]

LibIdle == BatchIdle /\ MultiIdle /\ FnIdle

(***************************************************************************)
(* OCR: performOCRWithRetry (ocrProcessor, CommonJS version) and           *)
(* extractText (server/utils/ocrProcessor.js)                              *)
(***************************************************************************)

\* largest maxRetries argument explored
MaxRetriesBound == 4

\* performOCRWithRetry(imageBuffer, language, maxRetries = 3)
DefaultMaxRetries == 3

\* result.data.text.trim().length < 10 is thrown as 'OCR returned insufficient text'
MinOcrTextLength == 10

\* the recognised texts the engine can return, reduced to what the pipeline reads
\* of them: len is text.trim().length, noise the number of characters of the
\* trimmed text that cleanText removes (whitespace runs, page numbers, watermarks)
Texts ==
  {[len |-> 9, noise |-> 0], [len |-> 10, noise |-> 0],
   [len |-> 50, noise |-> 0], [len |-> 50, noise |-> 1]}

NoText == [len |-> 0, noise |-> 0]

\* the outcomes of one Tesseract.recognize call: it rejects, or resolves with a text
EngineOutcomes == {[ok |-> FALSE, text |-> NoText]} \cup [ok : {TRUE}, text : Texts]

\* how the retry loop classifies an outcome: the engine threw, it returned text
\* that is too short, or it returned usable text
Kind(outcome) ==
  IF ~outcome.ok THEN "throw"
  ELSE IF outcome.text.len < MinOcrTextLength THEN "short"
  ELSE "ok"

\* the delay unit of setTimeout(resolve, 1000 * attempt)
RetryDelayMs == 1000

\* a delay that doubles with every attempt
retryDelayDoubling(a) == (RetryDelayMs \div 2) * 2^a

\* setTimeout(resolve, 1000 * attempt)
retryDelay(a) == RetryDelayMs * a

\* no OCR call in progress
OcrIdle ==
  /\ impl = "performOCRWithRetry"
  /\ maxRetries = DefaultMaxRetries
  /\ attempt = 1
  /\ rpc = "idle"
  /\ engineLog = <<>>
  /\ waits = <<>>
  /\ lastError = "none"
  /\ ocrText = NoText

\* one pass of the try block of performOCRWithRetry: recognize, then the
\* sufficiency check; a failure is kept in lastError and either retried after
\* the delay or, on the last attempt, thrown
Recognize ==
  /\ impl = "performOCRWithRetry"
  /\ rpc = "try"
  /\ attempt <= maxRetries
  /\ LET outcome == engineScript[attempt] IN
       /\ engineLog' = Append(engineLog, Kind(outcome))
       /\ IF Kind(outcome) = "ok"
          THEN /\ rpc' = "returned"
               /\ ocrText' = outcome.text
               /\ UNCHANGED lastError
          ELSE /\ lastError' = IF outcome.ok THEN "insufficient" ELSE "engine"
               /\ rpc' = IF attempt < maxRetries THEN "wait" ELSE "thrown"
               /\ UNCHANGED ocrText
  /\ UNCHANGED <<impl, maxRetries, attempt, waits, recordVars, engineScript, handlerVars, openai>>
  /\ UNCHANGED libVars

\* the delay of the catch block and the loop increment
Backoff ==
  /\ impl = "performOCRWithRetry"
  /\ rpc = "wait"
  /\ waits' = Append(waits, retryDelay(attempt))
  /\ attempt' = attempt + 1
  /\ rpc' = "try"
  /\ UNCHANGED <<impl, maxRetries, engineLog, lastError, ocrText, recordVars, engineScript,
                 handlerVars, openai>>
  /\ UNCHANGED libVars

\* extractText: fs.access, then one Tesseract.recognize with no retry and no
\* length check; every failure is rethrown as 'OCR processing failed: ...'
ExtractText ==
  /\ impl = "extractText"
  /\ rpc = "try"
  /\ \E accessOk \in BOOLEAN : LET outcome == engineScript[1] IN
       IF ~accessOk
       THEN /\ rpc' = "thrown"
            /\ lastError' = "access"
            /\ UNCHANGED <<engineLog, ocrText>>
       ELSE /\ engineLog' = Append(engineLog, Kind(outcome))
            /\ IF outcome.ok
               THEN /\ rpc' = "returned"
                    /\ ocrText' = outcome.text
                    /\ UNCHANGED lastError
               ELSE /\ rpc' = "thrown"
                    /\ lastError' = "engine"
                    /\ UNCHANGED ocrText
  /\ UNCHANGED <<impl, maxRetries, attempt, waits, recordVars, engineScript, handlerVars, openai>>
  /\ UNCHANGED libVars

(***************************************************************************)
(* The Analysis document, server/models/Analysis.js:1-348                  *)
(***************************************************************************)

\* analysisSchema.status.enum
StatusEnum == {"pending", "processing_ocr", "processing_ai", "completed", "failed", "cancelled"}

\* analysisSchema.error.stage.enum
ErrorStageEnum == {"upload", "ocr", "ai_analysis"}

\* the absent error sub-document (error is undefined until something sets it)
NullError == [isSet |-> FALSE, message |-> "", stage |-> "none"]

\* the errorInfo objects a caller of updateStatus can pass: null, or an object
\* whose message may be empty and whose stage may be missing
ErrorInfos ==
  {NullError} \cup
  [isSet : {TRUE}, message : {"", "OCR processing failed"},
   stage : ErrorStageEnum \cup {"none"}]

\* the status arguments a caller of updateStatus can pass
StatusArgs == StatusEnum \cup {"processing"}

\* a new Analysis(...) with the schema defaults: status 'pending', isPublic false
DefaultDoc == [status |-> "pending", error |-> NullError, isPublic |-> FALSE, shareToken |-> "none"]

\* Mongoose validation of the paths the model carries: enum on status and on error.stage
SchemaValid(d) ==
  /\ d.status \in StatusEnum
  /\ d.error.stage \in ErrorStageEnum \cup {"none"}

\* analysisSchema.pre('save'): share token generated for public documents, cleared otherwise
preSave(d) ==
  IF d.isPublic /\ d.shareToken = "none" THEN [d EXCEPT !.shareToken = "token"]
  ELSE IF ~d.isPublic THEN [d EXCEPT !.shareToken = "none"]
  ELSE d

\* analysisSchema.methods.updateStatus: assigns the status (and the error when
\* given) with no check of the current status, then saves; save validates, runs
\* the pre-save hook and writes the whole document, or rejects and writes nothing
updateStatus(newStatus, errorInfo, dbOk) ==
  LET assigned == [doc EXCEPT !.status = newStatus,
                              !.error = IF errorInfo.isSet THEN errorInfo ELSE @]
  IN  IF SchemaValid(assigned) /\ dbOk
      THEN /\ doc' = preSave(assigned)
           /\ stored' = preSave(assigned)
           /\ visited' = IF stored.status # newStatus
                         THEN visited \cup {stored.status} ELSE visited
      ELSE /\ doc' = assigned
           /\ UNCHANGED <<stored, visited>>

UpdateStatus ==
  /\ \E newStatus \in StatusArgs, errorInfo \in ErrorInfos, dbOk \in BOOLEAN :
       updateStatus(newStatus, errorInfo, dbOk)
  /\ UNCHANGED <<retryVars, engineScript, handlerVars, openai>>
  /\ UNCHANGED libVars

\* the record as constructed with the schema defaults and saved once
RecordCreated ==
  /\ doc = DefaultDoc
  /\ stored = DefaultDoc
  /\ visited = {}

(***************************************************************************)
(* File processing: FileProcessor of server/utils/logger.js:121-311 (used  *)
(* by the ESM upload route) and of the CommonJS fileProcessor              *)
(***************************************************************************)

\* req.file is undefined
NoFile == [present |-> FALSE, mimetype |-> "none", ext |-> "none", sig |-> "none", tooBig |-> FALSE]

\* the files the upload transport can hand to a handler: declared MIME type,
\* extension of the declared name, signature of the bytes, size above the limit
Files ==
  {NoFile} \cup
  [present : {TRUE}, mimetype : {"image/png", "application/pdf", "text/plain"},
   ext : {"png", "pdf", "exe"}, sig : {"png", "pdf"}, tooBig : BOOLEAN]

\* this.supportedTypes of the FileProcessor in logger.js
SupportedMimeTypes == {"image/jpeg", "image/jpg", "image/png", "application/pdf"}

\* this.supportedTypes of the CommonJS FileProcessor
SupportedExtensions == {"pdf", "jpg", "jpeg", "png"}

\* FileProcessor.validateFile (logger.js): MIME type, size, presence of data
validateFile_esm(f) ==
  LET errors == (IF f.mimetype \notin SupportedMimeTypes THEN {"unsupported_type"} ELSE {})
                \cup (IF f.tooBig THEN {"too_large"} ELSE {})
  IN  [isValid |-> errors = {}, errors |-> errors]

\* FileProcessor.getFileType
getFileType(mimetype) ==
  CASE mimetype = "application/pdf" -> "pdf"
    [] mimetype \in {"image/jpeg", "image/jpg"} -> "jpg"
    [] mimetype = "image/png" -> "png"
    [] OTHER -> "unknown"

\* FileProcessor.processFile (logger.js): validation, then PDFs are refused and
\* an image is passed on as the single page
processFile(f) ==
  LET validation == validateFile_esm(f) IN
    IF ~validation.isValid
    THEN [success |-> FALSE, errors |-> validation.errors, type |-> "none"]
    ELSE IF f.mimetype = "application/pdf"
    THEN [success |-> FALSE, errors |-> {"pdf_not_implemented"}, type |-> "none"]
    ELSE [success |-> TRUE, errors |-> {}, type |-> getFileType(f.mimetype)]

\* validateFile of the CommonJS FileProcessor: size, extension, MIME type
validateFile_cjs(f) ==
  LET errors == (IF f.tooBig THEN {"too_large"} ELSE {})
                \cup (IF f.ext \notin SupportedExtensions THEN {"unsupported_type"} ELSE {})
                \cup (IF f.mimetype \notin SupportedMimeTypes THEN {"invalid_mime"} ELSE {})
  IN  [isValid |-> errors = {}, errors |-> errors, fileType |-> f.ext]

\* the texts pdf-parse can extract (same reduction as Texts)
PdfTexts == {[len |-> 100, noise |-> 0], [len |-> 101, noise |-> 0], [len |-> 101, noise |-> 52]}

\* processPDF uses the PDF's own text when pdfData.text.trim().length > 100
PdfDirectTextLength == 100

\* cleanText / cleanedText, reduced to the trimmed length of its result
cleanText(t) == t.len - t.noise

(***************************************************************************)
(* The upload handlers: router.post('/') of the ESM route ("esm") and of   *)
(* server/routes/upload.js ("cjs"), one request at a time                  *)
(***************************************************************************)

\* cleanedText.trim().length < 50 (upload.js) and text.trim().length < 50 (analyzeDocument)
MinTextLength == 50

\* what the collaborators do during one request: the model service rejects
\* or returns an analysis; the database accepts writes or is unreachable
Envs == [ai : {"reject", "ok"}, dbUp : BOOLEAN]

NoRecord == [schema |-> "none", status |-> "none", originalText |-> 0, cleanedText |-> 0,
             analysis |-> "", fileType |-> "none"]

NoResponse == [code |-> 0, error |-> "none"]

\* no request is being served
NoRequest ==
  /\ route = "esm"
  /\ file = NoFile
  /\ env = [ai |-> "ok", dbUp |-> TRUE]
  /\ pc = "idle"
  /\ db = NoRecord
  /\ analysisId = FALSE
  /\ failure = "none"
  /\ response = NoResponse
  /\ text = NoText
  /\ aiCalls = 0
  /\ openai = "null"

\* required String paths of the ESM Analysis schema (Analysis.js:351-361) reject
\* the empty string; status and metadata.fileType are enums
SchemaV2Valid(d) ==
  /\ d.originalText > 0
  /\ d.analysis # ""
  /\ d.status \in {"processing", "completed", "failed"}
  /\ d.fileType \in {"pdf", "jpg", "jpeg", "png"}

\* required String paths of the CommonJS Analysis schema
SchemaCjsValid(d) ==
  /\ d.originalText > 0
  /\ d.cleanedText > 0
  /\ d.analysis # ""
  /\ d.fileType \in {"pdf", "jpg", "jpeg", "png"}

\* processImage / processMultipleImages enter performOCRWithRetry with the default maxRetries
startOcr ==
  /\ impl' = "performOCRWithRetry"
  /\ maxRetries' = DefaultMaxRetries
  /\ attempt' = 1
  /\ rpc' = "try"
  /\ engineLog' = <<>>
  /\ waits' = <<>>
  /\ lastError' = "none"
  /\ ocrText' = NoText

\* a request arrives: the transport hands over req.file, outside the handlers
NewRequest ==
  /\ pc = "idle"
  /\ route' \in {"esm", "cjs"}
  /\ file' \in Files
  /\ env' \in Envs
  /\ engineScript' \in [1..DefaultMaxRetries -> EngineOutcomes]
  /\ pc' = "validate"
  /\ db' = NoRecord
  /\ analysisId' = FALSE
  /\ failure' = "none"
  /\ response' = NoResponse
  /\ text' = NoText
  /\ aiCalls' = 0
  /\ impl' = "performOCRWithRetry"
  /\ maxRetries' = DefaultMaxRetries
  /\ attempt' = 1
  /\ rpc' = "idle"
  /\ engineLog' = <<>>
  /\ waits' = <<>>
  /\ lastError' = "none"
  /\ ocrText' = NoText
  /\ UNCHANGED <<recordVars, openai>>
  /\ UNCHANGED libVars

\* esm 38-58: missing file, then fileProcessor.processFile
\* cjs 42-59: missing file, then fileProcessor.validateFile
Validate ==
  /\ pc = "validate"
  /\ IF ~file.present
     THEN /\ response' = [code |-> 400, error |-> "no_file"]
          /\ pc' = "done"
     ELSE IF route = "esm"
     THEN LET fileResult == processFile(file) IN
            IF ~fileResult.success
            THEN /\ response' = [code |-> 400,
                                 error |-> IF "pdf_not_implemented" \in fileResult.errors
                                           THEN "pdf_unsupported" ELSE "validation"]
                 /\ pc' = "done"
            ELSE /\ pc' = "create"
                 /\ UNCHANGED response
     ELSE LET validation == validateFile_cjs(file) IN
            IF ~validation.isValid
            THEN /\ response' = [code |-> 400, error |-> "validation"]
                 /\ pc' = "done"
            ELSE /\ pc' = "process"
                 /\ UNCHANGED response
  /\ UNCHANGED <<recordVars, retryVars, engineScript, route, file, env, db, analysisId,
                 failure, text, aiCalls, openai>>
  /\ UNCHANGED libVars

\* esm 61-80: the record is built with empty originalText and analysis and
\* saved; when save resolves the handler goes on to processMultipleImages
CreateRecord ==
  /\ pc = "create"
  /\ LET analysis == [schema |-> "v2", status |-> "processing", originalText |-> 0,
                      cleanedText |-> 0, analysis |-> "",
                      fileType |-> processFile(file).type]
     IN  IF SchemaV2Valid(analysis) /\ env.dbUp
         THEN /\ db' = analysis
              /\ analysisId' = TRUE
              /\ pc' = "ocr"
              /\ startOcr
              /\ UNCHANGED failure
         ELSE /\ failure' = "save"
              /\ pc' = "catch"
              /\ UNCHANGED <<db, analysisId, retryVars>>
  /\ UNCHANGED <<recordVars, engineScript, route, file, env, response, text, aiCalls, openai>>
  /\ UNCHANGED libVars

\* cjs 69-92: a PDF goes through processPDF (pdf-parse, direct text when it is
\* long enough, otherwise OCR of the buffer), an image through sharp and OCR
ProcessFile ==
  /\ pc = "process"
  /\ IF validateFile_cjs(file).fileType = "pdf"
     THEN \E parsed \in BOOLEAN, pdfText \in PdfTexts :
            IF ~(parsed /\ file.sig = "pdf")
            THEN /\ failure' = "file"
                 /\ pc' = "catch"
                 /\ UNCHANGED <<text, retryVars>>
            ELSE IF pdfText.len > PdfDirectTextLength
            THEN /\ text' = pdfText
                 /\ pc' = "check"
                 /\ UNCHANGED <<failure, retryVars>>
            ELSE /\ pc' = "ocr"
                 /\ startOcr
                 /\ UNCHANGED <<failure, text>>
     ELSE \E decoded \in BOOLEAN :
            IF ~decoded
            THEN /\ failure' = "file"
                 /\ pc' = "catch"
                 /\ UNCHANGED <<text, retryVars>>
            ELSE /\ pc' = "ocr"
                 /\ startOcr
                 /\ UNCHANGED <<failure, text>>
  /\ UNCHANGED <<recordVars, engineScript, route, file, env, db, analysisId, response,
                 aiCalls, openai>>
  /\ UNCHANGED libVars

\* the OCR call has settled.  A rejection ('OCR processing failed: ...') lands
\* in the handler's catch.  esm 82-107: the result of processMultipleImages has
\* no success field, so !ocrResult.success holds for every result.  cjs 82-91:
\* the text is kept for the length check.
OcrDone ==
  /\ pc = "ocr"
  /\ rpc \in {"returned", "thrown"}
  /\ rpc' = "idle"
  /\ IF rpc = "thrown"
     THEN /\ failure' = "ocr"
          /\ pc' = "catch"
          /\ UNCHANGED <<db, response, text>>
     ELSE IF route = "esm"
     THEN LET ocrResult == [success |-> FALSE, text |-> ocrText] IN
            IF ~ocrResult.success \/ ocrResult.text.len = 0
            THEN IF env.dbUp
                 THEN /\ db' = [db EXCEPT !.status = "failed", !.analysis = "OCR processing failed."]
                      /\ response' = [code |-> 422, error |-> "text_extraction_failed"]
                      /\ failure' = "ocr"
                      /\ pc' = "done"
                      /\ UNCHANGED text
                 ELSE /\ failure' = "db"
                      /\ pc' = "catch"
                      /\ UNCHANGED <<db, response, text>>
            ELSE IF env.dbUp
                 THEN /\ db' = [db EXCEPT !.originalText = ocrResult.text.len]
                      /\ text' = ocrResult.text
                      /\ pc' = "ai"
                      /\ UNCHANGED <<failure, response>>
                 ELSE /\ failure' = "db"
                      /\ pc' = "catch"
                      /\ UNCHANGED <<db, response, text>>
     ELSE /\ text' = ocrText
          /\ pc' = "check"
          /\ UNCHANGED <<db, response, failure>>
  /\ UNCHANGED <<recordVars, impl, maxRetries, attempt, engineLog, waits, lastError, ocrText,
                 engineScript, route, file, env, analysisId, aiCalls, openai>>
  /\ UNCHANGED libVars

\* the check weakened to the emptiness test alone
insufficientTextEmptyOnly(t) == cleanText(t) = 0

\* !cleanedText || cleanedText.trim().length < 50
insufficientText(t) == cleanText(t) < MinTextLength

\* cjs 94-100: too little text is answered with 400 before any analysis
CheckText ==
  /\ pc = "check"
  /\ IF insufficientText(text)
     THEN /\ response' = [code |-> 400, error |-> "insufficient_text"]
          /\ pc' = "done"
     ELSE /\ pc' = "ai"
          /\ UNCHANGED response
  /\ UNCHANGED <<recordVars, retryVars, engineScript, route, file, env, db, analysisId,
                 failure, text, aiCalls, openai>>
  /\ UNCHANGED libVars

\* esm 113-158: analyzeText never throws; it returns success false when the
\* model call fails, and the handler writes the outcome before it answers.
\* cjs 105-148: analyzeDocument rejects short text, then analyzeSingleChunk
\* dereferences this.openai, which only getOpenAI() sets and nothing calls, and
\* every failure is rethrown as 'AI analysis failed: ...'; after an analysis
\* the record is created, saved and returned.
Analyze ==
  /\ pc = "ai"
  /\ aiCalls' = aiCalls + 1
  /\ IF route = "esm"
     THEN /\ UNCHANGED analysisId
          /\ IF ~env.dbUp
             THEN /\ failure' = "db"
                  /\ pc' = "catch"
                  /\ UNCHANGED <<db, response>>
             ELSE IF env.ai = "reject"
             THEN /\ db' = [db EXCEPT !.status = "failed", !.analysis = "Analysis failed due to technical error."]
                  /\ response' = [code |-> 500, error |-> "ai_failed"]
                  /\ failure' = "ai"
                  /\ pc' = "done"
             ELSE /\ db' = [db EXCEPT !.status = "completed", !.analysis = "analysis"]
                  /\ response' = [code |-> 200, error |-> "none"]
                  /\ pc' = "done"
                  /\ UNCHANGED failure
     ELSE IF cleanText(text) < MinTextLength \/ openai = "null" \/ env.ai = "reject"
          THEN /\ failure' = "ai"
               /\ pc' = "catch"
               /\ UNCHANGED <<db, analysisId, response>>
          ELSE LET analysis == [schema |-> "cjs", status |-> "none", originalText |-> text.len,
                                cleanedText |-> cleanText(text), analysis |-> "analysis",
                                fileType |-> validateFile_cjs(file).fileType]
               IN  IF SchemaCjsValid(analysis) /\ env.dbUp
                   THEN /\ db' = analysis
                        /\ analysisId' = TRUE
                        /\ response' = [code |-> 200, error |-> "none"]
                        /\ pc' = "done"
                        /\ UNCHANGED failure
                   ELSE /\ failure' = "save"
                        /\ pc' = "catch"
                        /\ UNCHANGED <<db, analysisId, response>>
  /\ UNCHANGED <<recordVars, retryVars, engineScript, route, file, env, text, openai>>
  /\ UNCHANGED libVars

\* esm 160-193: a record that exists is set to failed (an error of that update
\* is only logged) and 500 is sent.
\* cjs 150-192: a record that exists gets processingTime (errorMessage is not a
\* path of the schema); OCR and AI failures are answered with 422, the rest with 500.
Catch ==
  /\ pc = "catch"
  /\ IF route = "esm"
     THEN /\ db' = IF analysisId /\ env.dbUp
                   THEN [db EXCEPT !.status = "failed", !.analysis = "Processing failed due to server error."]
                   ELSE db
          /\ response' = [code |-> 500, error |-> "server_error"]
     ELSE /\ UNCHANGED db
          /\ response' = IF failure = "ocr" THEN [code |-> 422, error |-> "ocr_failed"]
                         ELSE IF failure = "ai" THEN [code |-> 422, error |-> "ai_failed"]
                         ELSE [code |-> 500, error |-> "server_error"]
  /\ pc' = "done"
  /\ UNCHANGED <<recordVars, retryVars, engineScript, route, file, env, analysisId, failure,
                 text, aiCalls, openai>>
  /\ UNCHANGED libVars

\* the handler has answered and returns: its locals are gone
EndRequest ==
  /\ pc = "done"
  /\ pc' = "idle"
  /\ route' = "esm"
  /\ file' = NoFile
  /\ env' = [ai |-> "ok", dbUp |-> TRUE]
  /\ db' = NoRecord
  /\ analysisId' = FALSE
  /\ failure' = "none"
  /\ response' = NoResponse
  /\ text' = NoText
  /\ aiCalls' = 0
  /\ impl' = "performOCRWithRetry"
  /\ maxRetries' = DefaultMaxRetries
  /\ attempt' = 1
  /\ rpc' = "idle"
  /\ engineLog' = <<>>
  /\ waits' = <<>>
  /\ lastError' = "none"
  /\ ocrText' = NoText
  /\ engineScript' = <<>>
  /\ UNCHANGED <<recordVars, openai>>
  /\ UNCHANGED libVars

(***************************************************************************)
(* Specifications                                                          *)
(***************************************************************************)

\* the record as created at upload acceptance and saved once
InitRecord == RecordCreated /\ OcrIdle /\ NoRequest /\ engineScript = <<>> /\ LibIdle

NextRecord == UpdateStatus

SpecRecord == InitRecord /\ [][NextRecord]_vars

\* an OCR call about to start, for either entry point and every maxRetries
InitRetry ==
  /\ RecordCreated
  /\ NoRequest
  /\ LibIdle
  /\ impl \in {"performOCRWithRetry", "extractText"}
  /\ maxRetries \in 1..MaxRetriesBound
  /\ engineScript \in [1..maxRetries -> EngineOutcomes]
  /\ attempt = 1
  /\ rpc = "try"
  /\ engineLog = <<>>
  /\ waits = <<>>
  /\ lastError = "none"
  /\ ocrText = NoText

NextRetry == Recognize \/ Backoff \/ ExtractText

SpecRetry == InitRetry /\ [][NextRetry]_vars

\* the server is up and no request has arrived yet
Init == RecordCreated /\ OcrIdle /\ NoRequest /\ engineScript = <<>> /\ LibIdle

Next ==
  \/ NewRequest
  \/ Validate
  \/ CreateRecord
  \/ ProcessFile
  \/ Recognize
  \/ Backoff
  \/ OcrDone
  \/ CheckText
  \/ Analyze
  \/ Catch
  \/ EndRequest

Spec == Init /\ [][Next]_vars

(***************************************************************************)
(* Multi-page OCR: processMultipleImages of the ocrProcessor               *)
(***************************************************************************)

\* largest number of page images in a batch
MaxPages == 4

\* const concurrencyLimit = 3
concurrencyLimit == 3

\* a page whose processImage call has not been started
QueuedPage == [st |-> "queued", attempt |-> 1]

\* the engine calls of the batch that have been issued and have not settled
PagesInFlight == {p \in DOMAIN pages : pages[p].st = "calling"}

\* the pages of the slice the for-of loop is at: imageBuffers.slice(i, i + concurrencyLimit)
\* with i = results.length
CurrentSlice ==
  {p \in DOMAIN pages : p > Len(results) /\ p <= Len(results) + concurrencyLimit}

\* chunk.map(async (buffer, index) => ... processImage ...): every page of the
\* slice enters processImage and issues its first recognize call
StartSlice ==
  /\ batch = "running"
  /\ CurrentSlice # {}
  /\ \A p \in CurrentSlice : pages[p].st = "queued"
  /\ pages' = [p \in DOMAIN pages |->
                 IF p \in CurrentSlice THEN [pages[p] EXCEPT !.st = "calling"] ELSE pages[p]]
  /\ UNCHANGED <<batch, results>>
  /\ UNCHANGED <<recordVars, retryVars, engineScript, handlerVars, openai, multiVars, fnVars>>

\* one recognize call of one page settles (performOCRWithRetry inside
\* processImage): usable text resolves the page; a failure is retried after the
\* delay or, on the last attempt, rejects the page, and the first rejection
\* rejects Promise.all, which the catch block of the batch rethrows
PageRecognize ==
  /\ \E p \in PagesInFlight, ok \in BOOLEAN :
       IF ok
       THEN /\ pages' = [pages EXCEPT ![p].st = "done"]
            /\ UNCHANGED batch
       ELSE IF pages[p].attempt < DefaultMaxRetries
       THEN /\ pages' = [pages EXCEPT ![p].st = "waiting"]
            /\ UNCHANGED batch
       ELSE /\ pages' = [pages EXCEPT ![p].st = "failed"]
            /\ batch' = IF batch = "running" THEN "thrown" ELSE batch
  /\ UNCHANGED results
  /\ UNCHANGED <<recordVars, retryVars, engineScript, handlerVars, openai, multiVars, fnVars>>

\* the delay between two attempts of one page has passed
PageBackoff ==
  /\ \E p \in DOMAIN pages :
       /\ pages[p].st = "waiting"
       /\ pages' = [pages EXCEPT ![p] = [st |-> "calling", attempt |-> pages[p].attempt + 1]]
  /\ UNCHANGED <<batch, results>>
  /\ UNCHANGED <<recordVars, retryVars, engineScript, handlerVars, openai, multiVars, fnVars>>

\* every page of the slice has resolved: results.push(...chunkResults); after
\* the last slice the texts are combined and the batch returns
SliceSettled ==
  /\ batch = "running"
  /\ CurrentSlice # {}
  /\ \A p \in CurrentSlice : pages[p].st = "done"
  /\ LET pushed == results \o [k \in 1..Cardinality(CurrentSlice) |-> Len(results) + k] IN
       /\ results' = pushed
       /\ batch' = IF Len(pushed) = Len(pages) THEN "returned" ELSE "running"
  /\ UNCHANGED pages
  /\ UNCHANGED <<recordVars, retryVars, engineScript, handlerVars, openai, multiVars, fnVars>>

\* processMultipleImages has been called with 1..MaxPages page images
InitBatch ==
  /\ RecordCreated /\ OcrIdle /\ NoRequest /\ engineScript = <<>>
  /\ MultiIdle /\ FnIdle
  /\ \E n \in 1..MaxPages : pages = [p \in 1..n |-> QueuedPage]
  /\ batch = "running"
  /\ results = <<>>

NextBatch == StartSlice \/ PageRecognize \/ PageBackoff \/ SliceSettled

SpecBatch == InitBatch /\ [][NextBatch]_vars

(***************************************************************************)
(* Multi-chunk analysis: analyzeMultipleChunks of server/utils/aiProcessor.js *)
(* ("openai", inside analyzeDocument) and of the Gemini AIProcessor        *)
(* ("gemini", inside analyzeText)                                          *)
(***************************************************************************)

\* largest number of chunks analysed
MaxChunks == 4

\* the external model calls that have been issued and have not settled
CallsInFlight ==
  Cardinality({i \in DOMAIN chunks : chunks[i] = "calling"})
    + (IF multi = "synthesis" THEN 1 ELSE 0)

\* the chunks whose call has not been issued
QueuedChunks == {i \in DOMAIN chunks : chunks[i] = "queued"}

\* the value of a Promise.all whose promises resolved in the given order, with
\* the results in completion order
promiseAllCompletionOrder(order) ==
  [k \in 1..Len(order) |-> [chunkIndex |-> order[k], error |-> FALSE]]

\* the value of a Promise.all whose promises resolved in the given order: the
\* results are placed by the position of their promise
promiseAll(order) ==
  [i \in 1..Len(order) |-> [chunkIndex |-> i, error |-> FALSE]]

\* the chunk indices of a list of chunk analyses, in list order
indicesOf(analyses) == [k \in 1..Len(analyses) |-> analyses[k].chunkIndex]

\* buildSynthesisPrompt: analyses.map((analysis, index) => `Chunk ${index + 1} Analysis: ...`)
buildSynthesisPrompt(analyses) == indicesOf(analyses)

isValidAnalysis(a) == ~a.error

\* combineChunkAnalyses (Gemini): the analyses without error are joined as
\* sections; with none left a fixed sentence is returned as the analysis
combineChunkAnalyses(analyses) ==
  LET validAnalyses == SelectSeq(analyses, isValidAnalysis) IN
    IF Len(validAnalyses) = 0
    THEN [analysis |-> "Unable to analyze document due to processing errors.", sections |-> <<>>]
    ELSE [analysis |-> "Document Analysis", sections |-> indicesOf(validAnalyses)]

\* analyzeDocument rethrows as 'AI analysis failed: ...'
AnalysisThrown == [settled |-> TRUE, success |-> FALSE, sections |-> <<>>, meta |-> <<>>]

\* getOpenAI(): creates the client.  The processor exports it and no module of
\* the repository calls it; here its caller is whoever drives the processor.
GetOpenAI ==
  /\ openai = "null"
  /\ multi = "running"
  /\ QueuedChunks = DOMAIN chunks
  /\ openai' = "client"
  /\ UNCHANGED <<recordVars, retryVars, engineScript, handlerVars, libVars>>

\* openai: chunks.map(chunk => this.analyzeSingleChunk(...)) issues the call of
\* every chunk at once; with this.openai null each analyzeSingleChunk throws
\* before it calls anything.
\* gemini: the for loop awaits chunk i before it issues chunk i + 1.
StartChunks ==
  /\ multi = "running"
  /\ QueuedChunks # {}
  /\ IF aiImpl = "openai"
     THEN /\ QueuedChunks = DOMAIN chunks
          /\ IF openai = "null"
             THEN /\ chunks' = [i \in DOMAIN chunks |-> "failed"]
                  /\ multi' = "thrown"
                  /\ aiResult' = AnalysisThrown
             ELSE /\ chunks' = [i \in DOMAIN chunks |-> "calling"]
                  /\ UNCHANGED <<multi, aiResult>>
     ELSE /\ CallsInFlight = 0
          /\ LET i == CHOOSE q \in QueuedChunks : \A o \in QueuedChunks : q <= o IN
               chunks' = [chunks EXCEPT ![i] = "calling"]
          /\ UNCHANGED <<multi, aiResult>>
  /\ UNCHANGED <<aiImpl, completion, chunkAnalyses>>
  /\ UNCHANGED <<recordVars, retryVars, engineScript, handlerVars, openai, batchVars, fnVars>>

\* the model call of one chunk settles.
\* openai: a rejection rejects Promise.all and with it analyzeDocument.
\* gemini: the try/catch of the loop pushes the result or an entry with error.
ChunkSettles ==
  /\ \E i \in DOMAIN chunks, ok \in BOOLEAN :
       /\ chunks[i] = "calling"
       /\ chunks' = [chunks EXCEPT ![i] = IF ok THEN "ok" ELSE "failed"]
       /\ completion' = Append(completion, i)
       /\ IF aiImpl = "openai"
          THEN /\ UNCHANGED chunkAnalyses
               /\ IF ~ok /\ multi = "running"
                  THEN /\ multi' = "thrown"
                       /\ aiResult' = AnalysisThrown
                  ELSE UNCHANGED <<multi, aiResult>>
          ELSE /\ chunkAnalyses' = Append(chunkAnalyses, [chunkIndex |-> i, error |-> ~ok])
               /\ UNCHANGED <<multi, aiResult>>
  /\ UNCHANGED aiImpl
  /\ UNCHANGED <<recordVars, retryVars, engineScript, handlerVars, openai, batchVars, fnVars>>

\* every chunk has been dealt with.
\* openai: Promise.all resolves, the synthesis prompt is built from its value
\* and the synthesis call is issued.
\* gemini: combineChunkAnalyses, and analyzeText returns with success: true and
\* chunkCount: chunks.length.
Combine ==
  /\ multi = "running"
  /\ IF aiImpl = "openai"
     THEN /\ \A i \in DOMAIN chunks : chunks[i] = "ok"
          /\ chunkAnalyses' = promiseAll(completion)
          /\ multi' = "synthesis"
          /\ UNCHANGED aiResult
     ELSE /\ \A i \in DOMAIN chunks : chunks[i] \in {"ok", "failed"}
          /\ multi' = "returned"
          /\ aiResult' = [settled |-> TRUE, success |-> TRUE,
                          sections |-> combineChunkAnalyses(chunkAnalyses).sections,
                          meta |-> <<Len(chunks)>>]
          /\ UNCHANGED chunkAnalyses
  /\ UNCHANGED <<aiImpl, chunks, completion>>
  /\ UNCHANGED <<recordVars, retryVars, engineScript, handlerVars, openai, batchVars, fnVars>>

\* openai: the synthesis call settles; analyzeDocument returns the parsed
\* synthesis with chunksProcessed: chunks.length, or rethrows
SynthesisSettles ==
  /\ multi = "synthesis"
  /\ \E ok \in BOOLEAN :
       IF ok
       THEN /\ multi' = "returned"
            /\ aiResult' = [settled |-> TRUE, success |-> TRUE,
                            sections |-> buildSynthesisPrompt(chunkAnalyses),
                            meta |-> <<Len(chunks)>>]
       ELSE /\ multi' = "thrown"
            /\ aiResult' = AnalysisThrown
  /\ UNCHANGED <<aiImpl, chunks, completion, chunkAnalyses>>
  /\ UNCHANGED <<recordVars, retryVars, engineScript, handlerVars, openai, batchVars, fnVars>>

\* chunkText returned 2..MaxChunks chunks and analyzeMultipleChunks is entered
InitMulti ==
  /\ RecordCreated /\ OcrIdle /\ NoRequest /\ engineScript = <<>>
  /\ BatchIdle /\ FnIdle
  /\ aiImpl \in {"openai", "gemini"}
  /\ \E n \in 2..MaxChunks : chunks = [i \in 1..n |-> "queued"]
  /\ completion = <<>>
  /\ chunkAnalyses = <<>>
  /\ multi = "running"
  /\ aiResult = [settled |-> FALSE]

NextMulti == GetOpenAI \/ StartChunks \/ ChunkSettles \/ Combine \/ SynthesisSettles

SpecMulti == InitMulti /\ [][NextMulti]_vars

(***************************************************************************)
(* File validation with signatures: validateFile / validateMagicNumbers of *)
(* the FileProcessor with magic numbers, next to validateFile of the       *)
(* CommonJS FileProcessor                                                  *)
(***************************************************************************)

\* the uploads given to validateFile: declared MIME type, extension of the
\* declared name, what the first bytes are, size above the limit, whether the
\* upload was stored on disk (file.path), whether the stored file can be opened,
\* and whether the name has path or control characters
UploadedFiles ==
  [present : {TRUE},
   mimetype : {"image/jpeg", "image/jpg", "image/png", "application/pdf", "text/plain"},
   ext : {"png", "pdf", "exe"},
   sig : {"jpeg", "png", "pdf", "other"},
   tooBig : BOOLEAN, hasPath : BOOLEAN, readable : BOOLEAN, badName : BOOLEAN]

\* this.allowedMimeTypes
allowedMimeTypes ==
  {"image/jpeg", "image/jpg", "image/png", "image/bmp", "image/tiff", "image/webp",
   "application/pdf"}

\* this.allowedExtensions
allowedExtensions == {"jpg", "jpeg", "png", "bmp", "tiff", "tif", "webp", "pdf"}

\* this.magicNumbers[mimeType], by the name of the signature; there is no
\* entry for image/jpg
magicNumbers(mimeType) ==
  CASE mimeType = "image/jpeg" -> "jpeg"
    [] mimeType = "image/png" -> "png"
    [] mimeType = "image/bmp" -> "bmp"
    [] mimeType = "image/tiff" -> "tiff"
    [] mimeType = "image/webp" -> "webp"
    [] mimeType = "application/pdf" -> "pdf"
    [] OTHER -> "undefined"

\* isSuspiciousFileName: path characters, control characters, executable extensions
isSuspiciousFileName(f) == f.badName \/ f.ext = "exe"

\* validateMagicNumbers: true when no signature is defined for the type, false
\* when the file cannot be read, otherwise the comparison of the first bytes
validateMagicNumbers(f) ==
  IF magicNumbers(f.mimetype) = "undefined" THEN TRUE
  ELSE IF ~f.readable THEN FALSE
  ELSE f.sig = magicNumbers(f.mimetype)

\* a validation that returns at the first check that fails
validateFileFirstError(f) ==
  LET errors ==
        IF f.tooBig THEN {"too_large"}
        ELSE IF f.ext \notin allowedExtensions THEN {"extension_not_allowed"}
        ELSE IF f.mimetype \notin allowedMimeTypes THEN {"type_not_allowed"}
        ELSE IF isSuspiciousFileName(f) THEN {"suspicious_name"}
        ELSE IF f.hasPath /\ ~validateMagicNumbers(f) THEN {"signature_mismatch"}
        ELSE {}
  IN  [isValid |-> errors = {}, errors |-> errors]

\* validateFile of the FileProcessor with magic numbers: the signature is
\* looked at only when the file has a path
validateFile(f) ==
  LET errors ==
        (IF f.tooBig THEN {"too_large"} ELSE {})
        \cup (IF f.ext \notin allowedExtensions THEN {"extension_not_allowed"} ELSE {})
        \cup (IF f.mimetype \notin allowedMimeTypes THEN {"type_not_allowed"} ELSE {})
        \cup (IF isSuspiciousFileName(f) THEN {"suspicious_name"} ELSE {})
        \cup (IF f.hasPath /\ ~validateMagicNumbers(f) THEN {"signature_mismatch"} ELSE {})
  IN  [isValid |-> errors = {}, errors |-> errors]

\* the validators under test
Validators == {"validateFile", "validateFile_cjs"}

\* one validator is applied to the file
ValidateFile ==
  /\ call.fn \in Validators
  /\ ~ret.done
  /\ ret' = [done |-> TRUE,
             value |-> IF call.fn = "validateFile"
                       THEN validateFile(call.arg)
                       ELSE [isValid |-> validateFile_cjs(call.arg).isValid,
                             errors |-> validateFile_cjs(call.arg).errors]]
  /\ UNCHANGED call
  /\ UNCHANGED <<recordVars, retryVars, engineScript, handlerVars, openai, batchVars, multiVars>>

InitValidate ==
  /\ RecordCreated /\ OcrIdle /\ NoRequest /\ engineScript = <<>>
  /\ BatchIdle /\ MultiIdle
  /\ call \in [fn : Validators, arg : UploadedFiles]
  /\ ret = [done |-> FALSE]

NextValidate == ValidateFile

SpecValidate == InitValidate /\ [][NextValidate]_vars

(***************************************************************************)
(* chunkText of server/utils/aiProcessor.js and of the Gemini AIProcessor. *)
(* A text is a sequence of characters.                                     *)
(***************************************************************************)

\* longest text explored
MaxTextLen == 6

\* maxChunkLength (3000) and maxTokensPerChunk (8000), scaled to the texts explored
maxChunkLength == 3

\* a letter, the sentence punctuation, and the white space
Alphabet == {"a", ".", "?", " ", "\n"}

TextsUpTo(n) == UNION {[1..k -> Alphabet] : k \in 0..n}

\* \s
IsSpace(c) == c \in {" ", "\n"}

\* [.!?]
IsPunct(c) == c \in {".", "!", "?"}

\* the last index e >= i - 1 such that every character of t in i..e satisfies
\* the class ("space" or "punct")
RECURSIVE runEnd(_, _, _)
runEnd(class, t, i) ==
  IF i <= Len(t) /\ (IF class = "space" THEN IsSpace(t[i]) ELSE IsPunct(t[i]))
  THEN runEnd(class, t, i + 1)
  ELSE i - 1

\* length of the separator that matches at position i of t, 0 when none does:
\*   "/\n\s*\n/"  a newline, white space, a newline (greedy)
\*   "/[.!?]+/"   a run of sentence punctuation
\*   "\n\n"       the literal paragraph break
\*   ". "         the literal period and space
matchLen(sep, t, i) ==
  CASE sep = "/\\n\\s*\\n/" ->
         IF t[i] # "\n" THEN 0
         ELSE LET newlines == {j \in (i + 1)..runEnd("space", t, i + 1) : t[j] = "\n"} IN
                IF newlines = {} THEN 0
                ELSE (CHOOSE j \in newlines : \A o \in newlines : o <= j) - i + 1
    [] sep = "/[.!?]+/" ->
         IF IsPunct(t[i]) THEN runEnd("punct", t, i) - i + 1 ELSE 0
    [] sep = "\\n\\n" ->
         IF t[i] = "\n" /\ i < Len(t) /\ t[i + 1] = "\n" THEN 2 ELSE 0
    [] sep = ". " ->
         IF t[i] = "." /\ i < Len(t) /\ t[i + 1] = " " THEN 2 ELSE 0

\* String.prototype.split from position i on, cur being the piece in progress
RECURSIVE splitFrom(_, _, _, _)
splitFrom(sep, t, i, cur) ==
  IF i > Len(t) THEN <<cur>>
  ELSE LET k == matchLen(sep, t, i) IN
         IF k > 0 THEN <<cur>> \o splitFrom(sep, t, i + k, <<>>)
         ELSE splitFrom(sep, t, i + 1, Append(cur, t[i]))

split(sep, t) == splitFrom(sep, t, 1, <<>>)

\* chunk += (chunk ? glue : '') + piece
glued(chunk, glue, piece) == IF chunk = <<>> THEN piece ELSE chunk \o glue \o piece

\* the sentence loop of chunkText (aiProcessor.js), from sentence k on
RECURSIVE sentenceLoop(_, _, _)
sentenceLoop(sentences, k, st) ==
  IF k > Len(sentences) THEN st
  ELSE LET sentence == sentences[k] IN
    sentenceLoop(sentences, k + 1,
      IF Len(st.sentenceChunk) + Len(sentence) <= maxChunkLength
      THEN [st EXCEPT !.sentenceChunk = glued(st.sentenceChunk, <<".", " ">>, sentence)]
      ELSE IF st.sentenceChunk # <<>>
      THEN [chunks |-> Append(st.chunks, st.sentenceChunk), sentenceChunk |-> sentence]
      ELSE [chunks |-> Append(st.chunks, SubSeq(sentence, 1, maxChunkLength)),
            sentenceChunk |-> SubSeq(sentence, maxChunkLength + 1, Len(sentence))])

\* a paragraph loop that glues every paragraph sentence by sentence
RECURSIVE paragraphLoopBySentences(_, _, _)
paragraphLoopBySentences(paragraphs, k, st) ==
  IF k > Len(paragraphs) THEN st
  ELSE LET r == sentenceLoop(split("/[.!?]+/", paragraphs[k]), 1,
                             [chunks |-> st.chunks, sentenceChunk |-> st.currentChunk])
       IN  paragraphLoopBySentences(paragraphs, k + 1,
                                    [chunks |-> r.chunks, currentChunk |-> r.sentenceChunk])

\* the paragraph loop of chunkText (aiProcessor.js), from paragraph k on
RECURSIVE paragraphLoop(_, _, _)
paragraphLoop(paragraphs, k, st) ==
  IF k > Len(paragraphs) THEN st
  ELSE LET paragraph == paragraphs[k] IN
    paragraphLoop(paragraphs, k + 1,
      IF Len(st.currentChunk) + Len(paragraph) <= maxChunkLength
      THEN [st EXCEPT !.currentChunk = glued(st.currentChunk, <<"\n", "\n">>, paragraph)]
      ELSE IF st.currentChunk # <<>>
      THEN [chunks |-> Append(st.chunks, st.currentChunk), currentChunk |-> paragraph]
      ELSE LET r == sentenceLoop(split("/[.!?]+/", paragraph), 1,
                                 [chunks |-> st.chunks, sentenceChunk |-> <<>>])
           IN  [chunks |-> r.chunks,
                currentChunk |-> IF r.sentenceChunk # <<>> THEN r.sentenceChunk
                                 ELSE st.currentChunk])

\* chunkText of aiProcessor.js
chunkText(t) ==
  IF Len(t) <= maxChunkLength THEN <<t>>
  ELSE LET st == paragraphLoop(split("/\\n\\s*\\n/", t), 1,
                               [chunks |-> <<>>, currentChunk |-> <<>>])
       IN  IF st.currentChunk # <<>> THEN Append(st.chunks, st.currentChunk) ELSE st.chunks

\* the sentence loop of chunkText (Gemini): it works on currentChunk itself and
\* pushes a sentence that is too long as it is
RECURSIVE sentenceLoop_gemini(_, _, _)
sentenceLoop_gemini(sentences, k, st) ==
  IF k > Len(sentences) THEN st
  ELSE LET sentence == sentences[k] IN
    sentenceLoop_gemini(sentences, k + 1,
      IF Len(st.currentChunk) + Len(sentence) <= maxChunkLength
      THEN [st EXCEPT !.currentChunk = glued(st.currentChunk, <<".", " ">>, sentence)]
      ELSE IF st.currentChunk # <<>>
      THEN [chunks |-> Append(st.chunks, st.currentChunk), currentChunk |-> sentence]
      ELSE [st EXCEPT !.chunks = Append(st.chunks, sentence)])

\* the paragraph loop of chunkText (Gemini)
RECURSIVE paragraphLoop_gemini(_, _, _)
paragraphLoop_gemini(paragraphs, k, st) ==
  IF k > Len(paragraphs) THEN st
  ELSE LET paragraph == paragraphs[k] IN
    paragraphLoop_gemini(paragraphs, k + 1,
      IF Len(st.currentChunk) + Len(paragraph) <= maxChunkLength
      THEN [st EXCEPT !.currentChunk = glued(st.currentChunk, <<"\n", "\n">>, paragraph)]
      ELSE IF st.currentChunk # <<>>
      THEN [chunks |-> Append(st.chunks, st.currentChunk), currentChunk |-> paragraph]
      ELSE sentenceLoop_gemini(split(". ", paragraph), 1, st))

\* chunk.trim().length > 0
hasContent(chunk) == \E i \in DOMAIN chunk : ~IsSpace(chunk[i])

\* chunkText of the Gemini AIProcessor
chunkText_gemini(t) ==
  IF Len(t) <= maxChunkLength THEN <<t>>
  ELSE LET st == paragraphLoop_gemini(split("\\n\\n", t), 1,
                                      [chunks |-> <<>>, currentChunk |-> <<>>])
       IN  SelectSeq(IF st.currentChunk # <<>> THEN Append(st.chunks, st.currentChunk)
                     ELSE st.chunks, hasContent)

\* the chunkers under test
Chunkers == {"chunkText", "chunkText_gemini"}

\* one chunker is applied to the text
ChunkText ==
  /\ call.fn \in Chunkers
  /\ ~ret.done
  /\ ret' = [done |-> TRUE,
             value |-> IF call.fn = "chunkText" THEN chunkText(call.arg)
                       ELSE chunkText_gemini(call.arg)]
  /\ UNCHANGED call
  /\ UNCHANGED <<recordVars, retryVars, engineScript, handlerVars, openai, batchVars, multiVars>>

InitChunk ==
  /\ RecordCreated /\ OcrIdle /\ NoRequest /\ engineScript = <<>>
  /\ BatchIdle /\ MultiIdle
  /\ call \in [fn : Chunkers, arg : TextsUpTo(MaxTextLen)]
  /\ ret = [done |-> FALSE]

NextChunk == ChunkText

SpecChunk == InitChunk /\ [][NextChunk]_vars

(***************************************************************************)
(* Response parsing: parseAIResponse (aiProcessor.js), parseAnalysisResponse *)
(* (Gemini AIProcessor) and parseJSONResponse (OpenAI content analyser)    *)
(***************************************************************************)

\* longest suggestions array in a model response
MaxSuggestions == 2

\* analysisSchema.suggestions.category.enum
CategoryEnum == {"grammar", "clarity", "structure", "content", "formatting"}

\* analysisSchema.suggestions.priority.enum
PriorityEnum == {"high", "medium", "low"}

\* the suggestions a model can write: category and priority inside the
\* enumerations, outside them ("style" is what the OpenAI prompt itself offers),
\* or missing
ModelSuggestions ==
  [category : {"grammar", "style", "undefined"}, priority : {"high", "urgent", "undefined"}]

\* what is read of a parsed JSON object: its analysis / summary ("undefined"
\* also stands for the empty string, which || treats alike) and its suggestions
\* (whether they are an array, and the items of the array)
NotAnArray == [isArray |-> FALSE, items |-> <<>>]

ModelObjects ==
  [analysis : {"undefined", "text"},
   suggestions : {NotAnArray} \cup
                 [isArray : {TRUE},
                  items : UNION {[1..n -> ModelSuggestions] : n \in 0..MaxSuggestions}]]

NoObject == [analysis |-> "undefined", suggestions |-> NotAnArray]

\* the content of a model response, by what the parsers do with it:
\*   missing  the content is null or undefined
\*   empty    the content is ''
\*   whole    JSON.parse(content): it throws, or gives null, a scalar, an array, an object
\*   braces   the match of /\{[\s\S]*\}/ in the content: none, one that JSON.parse
\*            rejects, or an object
\*   obj      the object parsed, when there is one
\*   quoted   the text that extractAnalysisFromText finds: "" when the quoted
\*            analysis is empty, "text" otherwise
\*   bullets  the number of numbered or bulleted items longer than 10 characters
\*   hints    the number of lines containing suggest, improve or consider
Responses ==
  {[missing |-> TRUE, empty |-> FALSE, whole |-> "throws", braces |-> "none",
    obj |-> NoObject, quoted |-> "text", bullets |-> 0, hints |-> 0]}
  \cup
  {[missing |-> FALSE, empty |-> TRUE, whole |-> "throws", braces |-> "none",
    obj |-> NoObject, quoted |-> "text", bullets |-> 0, hints |-> 0]}
  \cup
  [missing : {FALSE}, empty : {FALSE}, whole : {"object"}, braces : {"object"},
   obj : ModelObjects, quoted : {"text"}, bullets : {0}, hints : {0}]
  \cup
  [missing : {FALSE}, empty : {FALSE}, whole : {"throws"}, braces : {"object"},
   obj : ModelObjects, quoted : {"text"}, bullets : {0}, hints : {0}]
  \cup
  [missing : {FALSE}, empty : {FALSE}, whole : {"throws", "null", "scalar", "array"},
   braces : {"none", "throws"}, obj : {NoObject}, quoted : {"", "text"},
   bullets : 0..1, hints : 0..1]

\* a call that did not return
Threw == [threw |-> TRUE, analysis |-> "undefined", suggestions |-> <<>>]

Returned(analysis, suggestions) ==
  [threw |-> FALSE, analysis |-> analysis, suggestions |-> suggestions]

\* Array.isArray(parsed.suggestions) ? parsed.suggestions : []
suggestionsOf(parsed) == IF parsed.suggestions.isArray THEN parsed.suggestions.items ELSE <<>>

\* parsed.analysis || fallback
analysisOf(parsed, fallback) == IF parsed.analysis = "undefined" THEN fallback ELSE parsed.analysis

\* extractAnalysisFromText: the first group of the matching pattern, trimmed,
\* or the first 500 characters followed by '...'
extractAnalysisFromText(r) == r.quoted

\* extractSuggestionsFromText (aiProcessor.js): one general / medium suggestion per item
extractSuggestionsFromText(r) ==
  [k \in 1..r.bullets |-> [category |-> "general", priority |-> "medium"]]

\* extractSuggestionsFromText (Gemini): one general / medium suggestion per hint line
extractSuggestionsFromText_gemini(r) ==
  [k \in 1..r.hints |-> [category |-> "general", priority |-> "medium"]]

\* parseAIResponse: JSON.parse inside try; the catch block calls text.match and
\* text.substring on the response
parseAIResponse(r) ==
  IF r.missing THEN Threw
  ELSE IF r.whole = "object"
  THEN Returned(analysisOf(r.obj, "Analysis not provided"), suggestionsOf(r.obj))
  ELSE IF r.whole \in {"scalar", "array"}
  THEN Returned("Analysis not provided", <<>>)
  ELSE Returned(extractAnalysisFromText(r), extractSuggestionsFromText(r))

\* parseAnalysisResponse: the brace match and JSON.parse inside try; the
\* fallback after it calls text.split on the response
parseAnalysisResponse(r) ==
  IF r.missing THEN Threw
  ELSE IF r.braces = "object"
  THEN Returned(analysisOf(r.obj, "Analysis completed successfully."), suggestionsOf(r.obj))
  ELSE Returned(IF r.empty THEN "Analysis completed successfully." ELSE "text",
                extractSuggestionsFromText_gemini(r))

\* getEmptyResponse
getEmptyResponse ==
  Returned("Analysis could not be completed due to processing error", <<>>)

\* parseJSONResponse: the empty content and whatever JSON.parse rejects or
\* does not parse to an object give getEmptyResponse(); a parsed object or array
\* is returned as it is
parseJSONResponse(r) ==
  IF r.missing \/ r.empty THEN getEmptyResponse
  ELSE IF r.whole = "object" THEN Returned(r.obj.analysis, suggestionsOf(r.obj))
  ELSE IF r.whole = "array" THEN Returned("undefined", <<>>)
  ELSE getEmptyResponse

\* the parsers under test
Parsers == {"parseAIResponse", "parseAnalysisResponse", "parseJSONResponse"}

\* one parser is applied to the response
ParseResponse ==
  /\ call.fn \in Parsers
  /\ ~ret.done
  /\ ret' = [done |-> TRUE,
             value |-> CASE call.fn = "parseAIResponse" -> parseAIResponse(call.arg)
                         [] call.fn = "parseAnalysisResponse" -> parseAnalysisResponse(call.arg)
                         [] call.fn = "parseJSONResponse" -> parseJSONResponse(call.arg)]
  /\ UNCHANGED call
  /\ UNCHANGED <<recordVars, retryVars, engineScript, handlerVars, openai, batchVars, multiVars>>

InitParse ==
  /\ RecordCreated /\ OcrIdle /\ NoRequest /\ engineScript = <<>>
  /\ BatchIdle /\ MultiIdle
  /\ call \in [fn : Parsers, arg : Responses]
  /\ ret = [done |-> FALSE]

NextParse == ParseResponse

SpecParse == InitParse /\ [][NextParse]_vars

(***************************************************************************)
(* deduplicateSuggestions of the Gemini processor                          *)
(***************************************************************************)

\* most suggestions in the list handed to deduplicateSuggestions
MaxAllSuggestions == 3

\* longest suggestion text
MaxSuggestionLen == 3

\* suggestion.substring(0, 50), scaled to the texts explored
keyPrefixLength == 2

\* the characters of a category and of a suggestion text
KeyAlphabet == {"a", "-"}

\* a suggestion object without a suggestion property
NoSuggestionText == <<"undefined">>

\* categories as the model writes them (parseAnalysisResponse passes them through)
SuggestionCategories == {<<"a">>, <<"a", "-">>}

SuggestionTexts ==
  UNION {[1..n -> KeyAlphabet] : n \in 0..MaxSuggestionLen} \cup {NoSuggestionText}

\* the flattened suggestions of the valid chunk analyses
AllSuggestions ==
  UNION {[1..n -> [category : SuggestionCategories, suggestion : SuggestionTexts]] :
           n \in 0..MaxAllSuggestions}

\* String.prototype.substring(0, n)
substring0(s, n) == IF Len(s) <= n THEN s ELSE SubSeq(s, 1, n)

\* `${suggestion.category}-${suggestion.suggestion.substring(0, 50)}`
dedupKey(s) == s.category \o <<"-">> \o substring0(s.suggestion, keyPrefixLength)

\* the filter of deduplicateSuggestions from item k on, seen being the Set of keys
RECURSIVE dedupFrom(_, _, _)
dedupFrom(suggestions, k, seen) ==
  IF k > Len(suggestions) THEN <<>>
  ELSE IF dedupKey(suggestions[k]) \in seen
       THEN dedupFrom(suggestions, k + 1, seen)
       ELSE <<suggestions[k]>> \o dedupFrom(suggestions, k + 1, seen \cup {dedupKey(suggestions[k])})

\* deduplicateSuggestions: substring is called on every item in turn, so an item
\* without a suggestion text is a TypeError
deduplicateSuggestions(suggestions) ==
  IF \E k \in DOMAIN suggestions : suggestions[k].suggestion = NoSuggestionText
  THEN [threw |-> TRUE, suggestions |-> <<>>]
  ELSE [threw |-> FALSE, suggestions |-> dedupFrom(suggestions, 1, {})]

\* the suggestions of the valid analyses are deduplicated
DeduplicateSuggestions ==
  /\ call.fn = "deduplicateSuggestions"
  /\ ~ret.done
  /\ ret' = [done |-> TRUE, value |-> deduplicateSuggestions(call.arg)]
  /\ UNCHANGED call
  /\ UNCHANGED <<recordVars, retryVars, engineScript, handlerVars, openai, batchVars, multiVars>>

InitDedup ==
  /\ RecordCreated /\ OcrIdle /\ NoRequest /\ engineScript = <<>>
  /\ BatchIdle /\ MultiIdle
  /\ call \in [fn : {"deduplicateSuggestions"}, arg : AllSuggestions]
  /\ ret = [done |-> FALSE]

NextDedup == DeduplicateSuggestions

SpecDedup == InitDedup /\ [][NextDedup]_vars

(***************************************************************************)
(* OCR results: extractText / calculateOverallConfidence of                *)
(* server/utils/ocrProcessor.js and processImage of the CommonJS           *)
(* ocrProcessor                                                            *)
(***************************************************************************)

\* most words in one recognition result
MaxWords == 3

\* characters of one recognised word
WordLength == 5

\* the scale of Tesseract's confidences, 0 to 100
ConfidenceScale == 100

\* the entries of result.data.words: null, or a word with its confidence
\* (a word without a confidence fails the filter like one with confidence 0)
Words == {[isNull |-> TRUE, confidence |-> 0]} \cup [isNull : {FALSE}, confidence : {0, 50, 100}]

\* result.data of a Tesseract.recognize call: the words (hasWords is FALSE when
\* the property is missing), and the page's own confidence on the same scale.
\* The text is the words joined by one space.
TesseractData ==
  {[hasWords |-> FALSE, words |-> <<>>, confidence |-> 0]}
  \cup [hasWords : {TRUE}, words : UNION {[1..n -> Words] : n \in 0..MaxWords},
        confidence : {0, 50, 100}]

\* result.data.text.trim().length
textLength(data) ==
  LET n == Cardinality({k \in DOMAIN data.words : ~data.words[k].isNull}) IN
    IF n = 0 THEN 0 ELSE n * WordLength + (n - 1)

\* a confidence as the exact quotient num / den
Quotient(num, den) == [num |-> num, den |-> den]

RECURSIVE sumConfidence(_)
sumConfidence(ws) == IF ws = <<>> THEN 0 ELSE Head(ws).confidence + sumConfidence(Tail(ws))

\* word => word && word.confidence > 0
isValidWord(word) == ~word.isNull /\ word.confidence > 0

\* calculateOverallConfidence: 0 without words, else the mean of the words
\* with a confidence above 0, divided by 100
calculateOverallConfidence(data) ==
  IF ~data.hasWords \/ data.words = <<>> THEN Quotient(0, 1)
  ELSE LET validWords == SelectSeq(data.words, isValidWord) IN
         IF validWords = <<>> THEN Quotient(0, 1)
         ELSE Quotient(sumConfidence(validWords), Len(validWords) * ConfidenceScale)

\* extractText: the confidence is calculateOverallConfidence(result.data), the
\* text is the cleaned result.data.text (textLength is its length)
extractText(data) ==
  [threw |-> FALSE, confidence |-> calculateOverallConfidence(data), textLength |-> textLength(data)]

\* processImage: performOCRWithRetry throws when the trimmed text has fewer
\* than 10 characters (the engine answering every attempt alike), and
\* processImage rethrows; otherwise the confidence is result.data.confidence
processImage(data) ==
  IF textLength(data) < MinOcrTextLength
  THEN [threw |-> TRUE, confidence |-> Quotient(0, 1), textLength |-> 0]
  ELSE [threw |-> FALSE, confidence |-> Quotient(data.confidence, 1), textLength |-> textLength(data)]

\* the two OCR entry points
OcrEntryPoints == {"extractText", "processImage"}

\* the engine has resolved with call.arg; the entry point builds its result
BuildOcrResult ==
  /\ call.fn \in OcrEntryPoints
  /\ ~ret.done
  /\ ret' = [done |-> TRUE,
             value |-> IF call.fn = "extractText" THEN extractText(call.arg)
                       ELSE processImage(call.arg)]
  /\ UNCHANGED call
  /\ UNCHANGED <<recordVars, retryVars, engineScript, handlerVars, openai, batchVars, multiVars>>

InitConfidence ==
  /\ RecordCreated /\ OcrIdle /\ NoRequest /\ engineScript = <<>>
  /\ BatchIdle /\ MultiIdle
  /\ call \in [fn : OcrEntryPoints, arg : TesseractData]
  /\ ret = [done |-> FALSE]

NextConfidence == BuildOcrResult

SpecConfidence == InitConfidence /\ [][NextConfidence]_vars

(***************************************************************************)
(* Pending external calls: the awaited Tesseract.recognize of              *)
(* performOCRWithRetry and extractText, and the raced one of               *)
(* detectLanguage                                                          *)
(***************************************************************************)

\* const languages = ['eng', 'spa', 'fra', 'deu']
DetectionLanguages == 4

\* this.languageDetectionTimeout
languageDetectionTimeout == 30000

\* this.singleLanguageTimeout
singleLanguageTimeout == 10000

\* what the engine does with one call: it resolves with a good result (usable
\* text, confidence above 0.8), resolves with a poor one (fewer than 10
\* characters, confidence of at most 0.8), rejects, or never settles
CallOutcomes == {"good", "poor", "reject", "never"}

\* the functions that await a recognition call
CallSites == {"performOCRWithRetry", "extractText", "detectLanguage"}

\* the call of the current pass is issued and awaited. At the top of its loop
\* detectLanguage first compares the time spent with languageDetectionTimeout;
\* every earlier pass lasted at most singleLanguageTimeout.
IssueCall ==
  /\ impl \in CallSites
  /\ rpc = "try"
  /\ \/ rpc' = "pending"
     \/ /\ impl = "detectLanguage"
        /\ (attempt - 1) * singleLanguageTimeout >= languageDetectionTimeout
        /\ rpc' = "returned"
  /\ UNCHANGED <<impl, maxRetries, attempt, engineLog, waits, lastError, ocrText, recordVars,
                 engineScript, handlerVars, openai>>
  /\ UNCHANGED libVars

\* what detectLanguage does after a pass that did not end the loop
nextLanguage == IF attempt < DetectionLanguages THEN "try" ELSE "returned"

\* the engine settles the pending call and the awaiting code goes on
CallSettles ==
  /\ impl \in CallSites
  /\ rpc = "pending"
  /\ engineScript[attempt] # "never"
  /\ LET outcome == engineScript[attempt] IN
       /\ engineLog' = Append(engineLog, outcome)
       /\ CASE impl = "performOCRWithRetry" ->
                 IF outcome = "good"
                 THEN /\ rpc' = "returned"
                      /\ UNCHANGED <<lastError, attempt>>
                 ELSE /\ lastError' = IF outcome = "poor" THEN "insufficient" ELSE "engine"
                      /\ rpc' = IF attempt < maxRetries THEN "wait" ELSE "thrown"
                      /\ UNCHANGED attempt
            [] impl = "extractText" ->
                 /\ rpc' = IF outcome = "reject" THEN "thrown" ELSE "returned"
                 /\ lastError' = IF outcome = "reject" THEN "engine" ELSE lastError
                 /\ UNCHANGED attempt
            [] impl = "detectLanguage" ->
                 /\ rpc' = IF outcome = "good" THEN "returned" ELSE nextLanguage
                 /\ attempt' = IF outcome = "good" \/ attempt = DetectionLanguages
                               THEN attempt ELSE attempt + 1
                 /\ lastError' = IF outcome = "reject" THEN "engine" ELSE lastError
  /\ UNCHANGED <<impl, maxRetries, waits, ocrText, recordVars, engineScript, handlerVars, openai>>
  /\ UNCHANGED libVars

\* the timer raced against the call in detectLanguage rejects first: the
\* error is caught and the loop goes on with the next language
TimerFires ==
  /\ impl = "detectLanguage"
  /\ rpc = "pending"
  /\ waits' = Append(waits, singleLanguageTimeout)
  /\ lastError' = "timeout"
  /\ rpc' = nextLanguage
  /\ attempt' = IF attempt = DetectionLanguages THEN attempt ELSE attempt + 1
  /\ UNCHANGED <<impl, maxRetries, engineLog, ocrText, recordVars, engineScript, handlerVars,
                 openai>>
  /\ UNCHANGED libVars

\* the delay of the catch block of performOCRWithRetry and the loop increment
RetryAfterDelay ==
  /\ impl = "performOCRWithRetry"
  /\ rpc = "wait"
  /\ waits' = Append(waits, retryDelay(attempt))
  /\ attempt' = attempt + 1
  /\ rpc' = "try"
  /\ UNCHANGED <<impl, maxRetries, engineLog, lastError, ocrText, recordVars, engineScript,
                 handlerVars, openai>>
  /\ UNCHANGED libVars

InitCalls ==
  /\ RecordCreated /\ NoRequest /\ LibIdle
  /\ impl \in CallSites
  /\ maxRetries = DefaultMaxRetries
  /\ attempt = 1
  /\ rpc = "try"
  /\ engineLog = <<>>
  /\ waits = <<>>
  /\ lastError = "none"
  /\ ocrText = NoText
  /\ engineScript \in [1..DetectionLanguages -> CallOutcomes]

NextCalls == IssueCall \/ CallSettles \/ TimerFires \/ RetryAfterDelay

SpecCalls == InitCalls /\ [][NextCalls]_vars

\* every step of the code, every settlement the engine makes and every timer
\* that was set eventually happens; a call that never settles stays pending
SpecCallsFair == SpecCalls /\ WF_vars(NextCalls)

(***************************************************************************)
(* Text cleaning: cleanExtractedText of server/utils/ocrProcessor.js and   *)
(* cleanText of the CommonJS ocrProcessor, character by character          *)
(***************************************************************************)

\* longest raw text cleaned
MaxRawLen == 5

\* the characters of a raw OCR text: a letter, the digits with a look-alike,
\* white space, and "NUL" for a character outside \x20-\x7E, \n, \r, \t
OcrAlphabet == {"a", "0", "1", " ", "\n", "NUL"}

\* the characters of a raw page text: besides those, "Page" stands for the
\* word Page and "DRAFT" for one of the words CONFIDENTIAL, DRAFT, COPY
PageAlphabet == {"a", "1", " ", "\n", "NUL", "Page", "DRAFT"}

RawTexts(alphabet) == UNION {[1..k -> alphabet] : k \in 0..MaxRawLen}

\* [A-Za-z]
IsLetter(c) == c \in {"a", "O", "I"}

\* \d
IsDigit(c) == c \in {"0", "1"}

\* \s
IsWhitespace(c) == c \in {" ", "\n", "\r", "\t"}

\* .replace(/\s+/g, ' ')
RECURSIVE collapseWhitespace(_)
collapseWhitespace(s) ==
  IF s = <<>> THEN <<>>
  ELSE IF IsWhitespace(Head(s))
       THEN IF Len(s) > 1 /\ IsWhitespace(s[2])
            THEN collapseWhitespace(Tail(s))
            ELSE <<" ">> \o collapseWhitespace(Tail(s))
       ELSE <<Head(s)>> \o collapseWhitespace(Tail(s))

IsPrintable(c) == c # "NUL"

\* .replace(/[^\x20-\x7E\n\r\t]/g, '')
stripNonPrintable(s) == SelectSeq(s, IsPrintable)

\* a replacement that asks for a letter before the digit only
RECURSIVE replaceLookalikeOneSided(_, _, _)
replaceLookalikeOneSided(s, digit, letter) ==
  IF s = <<>> THEN <<>>
  ELSE IF Len(s) >= 2 /\ IsLetter(s[1]) /\ s[2] = digit
       THEN <<s[1], letter>> \o replaceLookalikeOneSided(SubSeq(s, 3, Len(s)), digit, letter)
       ELSE <<Head(s)>> \o replaceLookalikeOneSided(Tail(s), digit, letter)

\* .replace(/([A-Za-z])0([A-Za-z])/g, '$1O$2'), and the same for 1 and I: the
\* scan goes on after the letter that closes a match
RECURSIVE replaceLookalike(_, _, _)
replaceLookalike(s, digit, letter) ==
  IF s = <<>> THEN <<>>
  ELSE IF Len(s) >= 3 /\ IsLetter(s[1]) /\ s[2] = digit /\ IsLetter(s[3])
       THEN <<s[1], letter, s[3]>> \o replaceLookalike(SubSeq(s, 4, Len(s)), digit, letter)
       ELSE <<Head(s)>> \o replaceLookalike(Tail(s), digit, letter)

\* .replace(/\r\n/g, '\n').replace(/\r/g, '\n')
RECURSIVE normalizeLineBreaks(_)
normalizeLineBreaks(s) ==
  IF s = <<>> THEN <<>>
  ELSE IF Head(s) = "\r"
       THEN IF Len(s) > 1 /\ s[2] = "\n"
            THEN normalizeLineBreaks(Tail(s))
            ELSE <<"\n">> \o normalizeLineBreaks(Tail(s))
       ELSE <<Head(s)>> \o normalizeLineBreaks(Tail(s))

RECURSIVE trimStart(_)
trimStart(s) == IF s # <<>> /\ IsWhitespace(Head(s)) THEN trimStart(Tail(s)) ELSE s

RECURSIVE trimEnd(_)
trimEnd(s) ==
  IF s # <<>> /\ IsWhitespace(s[Len(s)]) THEN trimEnd(SubSeq(s, 1, Len(s) - 1)) ELSE s

\* String.prototype.trim
trim(s) == trimEnd(trimStart(s))

\* the text on which cleanExtractedText makes its two replacements
beforeLookalikes(rawText) == stripNonPrintable(collapseWhitespace(rawText))

\* cleanExtractedText
cleanExtractedText(rawText) ==
  trim(normalizeLineBreaks(
         replaceLookalike(replaceLookalike(beforeLookalikes(rawText), "0", "O"), "1", "I")))

\* the end of the run of digits that starts at s[i]
RECURSIVE digitsEnd(_, _)
digitsEnd(s, i) == IF i <= Len(s) /\ IsDigit(s[i]) THEN digitsEnd(s, i + 1) ELSE i - 1

\* .replace(/Page \d+/gi, '')
RECURSIVE removePageMarks(_)
removePageMarks(s) ==
  IF s = <<>> THEN <<>>
  ELSE IF Len(s) >= 3 /\ s[1] = "Page" /\ s[2] = " " /\ IsDigit(s[3])
       THEN removePageMarks(SubSeq(s, digitsEnd(s, 3) + 1, Len(s)))
       ELSE <<Head(s)>> \o removePageMarks(Tail(s))

\* .replace(/^\d+\s*$/gm, ''): the first replacement has left no line break, so
\* the only line is the whole text
removeStandaloneNumbers(s) ==
  IF /\ s # <<>>
     /\ IsDigit(s[1])
     /\ \A k \in (digitsEnd(s, 1) + 1)..Len(s) : IsWhitespace(s[k])
  THEN <<>>
  ELSE s

IsNotWatermark(c) == c # "DRAFT"

\* .replace(/CONFIDENTIAL|DRAFT|COPY/gi, '')
removeWatermarks(s) == SelectSeq(s, IsNotWatermark)

\* cleanText of the CommonJS ocrProcessor; /\n{3,}/ and /([.!?])\s*\n+\s*([A-Z])/
\* find no line break to match after the first replacement
cleanTextOfPages(t) ==
  trim(removeWatermarks(removeStandaloneNumbers(removePageMarks(collapseWhitespace(t)))))

\* the two cleaning functions
Cleaners == {"cleanExtractedText", "cleanText"}

\* one cleaning function is applied to the raw text
CleanRawText ==
  /\ call.fn \in Cleaners
  /\ ~ret.done
  /\ ret' = [done |-> TRUE,
             value |-> IF call.fn = "cleanExtractedText" THEN cleanExtractedText(call.arg)
                       ELSE cleanTextOfPages(call.arg)]
  /\ UNCHANGED call
  /\ UNCHANGED <<recordVars, retryVars, engineScript, handlerVars, openai, batchVars, multiVars>>

InitClean ==
  /\ RecordCreated /\ OcrIdle /\ NoRequest /\ engineScript = <<>>
  /\ BatchIdle /\ MultiIdle
  /\ call \in [fn : {"cleanExtractedText"}, arg : RawTexts(OcrAlphabet)]
              \cup [fn : {"cleanText"}, arg : RawTexts(PageAlphabet)]
  /\ ret = [done |-> FALSE]

NextClean == CleanRawText

SpecClean == InitClean /\ [][NextClean]_vars

(***************************************************************************)
(* deleteFile of the FileProcessor with magic numbers. A path is a         *)
(* sequence of characters.                                                 *)
(***************************************************************************)

\* longest fileName argument
MaxFileNameLen == 7

\* the characters of a fileName: the separator, the dot and two letters
PathAlphabet == {"/", ".", "u", "b"}

FileNames == UNION {[1..n -> PathAlphabet] : n \in 0..MaxFileNameLen}

\* this.uploadDir, already resolved: /u
uploadDir == <<"/", "u">>

\* the files on the disk: one inside the upload directory, one in the
\* sibling directory /ub, one in the root
FilesOnDisk == {<<"/", "u", "/", "b">>, <<"/", "u", "b", "/", "b">>, <<"/", "b">>}

\* the directories on the disk
DirectoriesOnDisk == {<<"/">>, <<"/", "u">>, <<"/", "u", "b">>}

\* the segments of a path between separators, empty ones included
RECURSIVE pathSegments(_, _, _)
pathSegments(p, i, cur) ==
  IF i > Len(p) THEN <<cur>>
  ELSE IF p[i] = "/" THEN <<cur>> \o pathSegments(p, i + 1, <<>>)
  ELSE pathSegments(p, i + 1, Append(cur, p[i]))

\* the segments left once '', '.' and '..' are resolved, from the root
RECURSIVE resolveSegments(_, _)
resolveSegments(segments, acc) ==
  IF segments = <<>> THEN acc
  ELSE LET s == Head(segments) IN
    resolveSegments(Tail(segments),
      IF s = <<>> \/ s = <<".">> THEN acc
      ELSE IF s = <<".", ".">>
           THEN (IF acc = <<>> THEN acc ELSE SubSeq(acc, 1, Len(acc) - 1))
           ELSE Append(acc, s))

RECURSIVE joinSegments(_)
joinSegments(segments) ==
  IF segments = <<>> THEN <<>>
  ELSE <<"/">> \o Head(segments) \o joinSegments(Tail(segments))

\* path.resolve of an absolute path
resolve(p) ==
  LET segments == resolveSegments(pathSegments(p, 1, <<>>), <<>>) IN
    IF segments = <<>> THEN <<"/">> ELSE joinSegments(segments)

\* path.join(this.uploadDir, fileName), before normalisation
join(dir, fileName) == IF fileName = <<>> THEN dir ELSE dir \o <<"/">> \o fileName

\* String.prototype.startsWith
startsWith(s, prefix) == Len(prefix) <= Len(s) /\ SubSeq(s, 1, Len(prefix)) = prefix

\* resolvedPath.startsWith(resolvedUploadDir)
passesSecurityCheck(resolvedPath, resolvedUploadDir) ==
  startsWith(resolvedPath, resolvedUploadDir)

\* the outcome of deleteFile when nothing was deleted
NothingDeleted(outcome) == [outcome |-> outcome, deleted |-> <<>>]

\* deleteFile: the security check, then fs.unlink(filePath); ENOENT is
\* returned as false, every other error is thrown again. A path that ends
\* with a separator names a directory, and unlink fails on directories.
deleteFile(fileName) ==
  LET filePath == join(uploadDir, fileName)
      resolvedPath == resolve(filePath)
  IN  IF ~passesSecurityCheck(resolvedPath, resolve(uploadDir))
      THEN NothingDeleted("thrown")
      ELSE IF resolvedPath \in DirectoriesOnDisk THEN NothingDeleted("thrown")
      ELSE IF resolvedPath \notin FilesOnDisk THEN NothingDeleted("false")
      ELSE IF filePath[Len(filePath)] = "/" THEN NothingDeleted("thrown")
      ELSE [outcome |-> "true", deleted |-> resolvedPath]

\* deleteFile is called with the fileName
DeleteFile ==
  /\ call.fn = "deleteFile"
  /\ ~ret.done
  /\ ret' = [done |-> TRUE, value |-> deleteFile(call.arg)]
  /\ UNCHANGED call
  /\ UNCHANGED <<recordVars, retryVars, engineScript, handlerVars, openai, batchVars, multiVars>>

InitDelete ==
  /\ RecordCreated /\ OcrIdle /\ NoRequest /\ engineScript = <<>>
  /\ BatchIdle /\ MultiIdle
  /\ call \in [fn : {"deleteFile"}, arg : FileNames]
  /\ ret = [done |-> FALSE]

NextDelete == DeleteFile

SpecDelete == InitDelete /\ [][NextDelete]_vars

(***************************************************************************)
(* Claims about the record's status                                        *)
(***************************************************************************)

\* the transitions of the documented state machine
LegalTransitions ==
  {<<"pending", "processing_ocr">>, <<"processing_ocr", "processing_ai">>,
   <<"processing_ai", "completed">>, <<"processing_ocr", "failed">>,
   <<"processing_ai", "failed">>} \cup
  {<<s, "cancelled">> : s \in {"pending", "processing_ocr", "processing_ai"}}

TerminalStatuses == {"completed", "failed", "cancelled"}

\* C1: every change of the stored record's status follows a transition of the
\* documented state machine and never enters a status the record held before.
C1_StatusPath ==
  [][stored'.status # stored.status =>
       /\ <<stored.status, stored'.status>> \in LegalTransitions
       /\ stored'.status \notin visited]_vars

\* C2: once the stored record's status is completed, failed or cancelled, no
\* step changes its status or any other of its fields.
C2_TerminalImmutable ==
  [][stored.status \in TerminalStatuses => stored' = stored]_vars

\* C4: every stored record whose status is failed carries an error with a
\* stage and a non-empty message.
C4_FailedHasError ==
  stored.status = "failed" =>
    /\ stored.error.isSet
    /\ stored.error.stage \in ErrorStageEnum
    /\ stored.error.message # ""

(***************************************************************************)
(* Claims about OCR retries                                                *)
(***************************************************************************)

\* C9: extraction throws only after the engine has thrown on every one of
\* maxRetries calls, and an engine call that returns is the last call made and
\* its result is what extraction returns.
C9_FailsOnlyAfterAllAttempts ==
  /\ rpc = "thrown" =>
       /\ Len(engineLog) = maxRetries
       /\ \A i \in 1..Len(engineLog) : engineLog[i] = "throw"
  /\ \A i \in 1..Len(engineLog) :
       engineLog[i] # "throw" => (i = Len(engineLog) /\ rpc = "returned")

\* C10 as stated: every wait is twice the wait before it.
C10_WaitsDouble ==
  \A i \in 2..Len(waits) : waits[i] = 2 * waits[i - 1]

\* C10 as amended: the wait after the i-th failed attempt is 1000 ms times i,
\* each wait is 1000 ms longer than the one before, every failed attempt but
\* the last is followed by exactly one wait, and no wait follows the last one.
C10_LinearBackoff ==
  /\ \A i \in 1..Len(waits) : waits[i] = 1000 * i
  /\ \A i \in 2..Len(waits) : waits[i] - waits[i - 1] = 1000
  /\ Len(waits) <= maxRetries - 1
  /\ (impl = "performOCRWithRetry" /\ rpc = "try") => Len(waits) = Len(engineLog)
  /\ (impl = "performOCRWithRetry" /\ rpc # "try") => Len(waits) = Len(engineLog) - 1
  /\ impl = "extractText" => waits = <<>>

\* three waits have been slept: the third is not twice the second
C10_ThreeWaits == Len(waits) >= 3

(***************************************************************************)
(* Claims about the upload handlers (specification Spec)                   *)
(***************************************************************************)

\* C3: when a request ends because the OCR stage or the AI stage failed, the
\* record of the request exists in the store with status failed, i.e. the
\* failure was written to the record and not only to the response.
C3_StageFailureRecorded ==
  (pc = "done" /\ failure \in {"ocr", "ai"}) =>
    (db # NoRecord /\ db.status = "failed")

\* the recognition engine fails twice and then returns usable text
FailsTwiceThenSucceeds(script) ==
  /\ Len(script) = DefaultMaxRetries
  /\ Kind(script[1]) = "throw"
  /\ Kind(script[2]) = "throw"
  /\ Kind(script[3]) = "ok"
  /\ cleanText(script[3].text) >= MinTextLength

\* C5: a valid upload whose recognition fails on attempts 1 and 2 and succeeds
\* on attempt 3, with the model call returning and the database reachable,
\* ends with a record of status completed and a success response.
C5_RetrySucceedsCompleted ==
  (/\ pc = "done"
   /\ route = "esm"
   /\ processFile(file).success
   /\ FailsTwiceThenSucceeds(engineScript)
   /\ env.ai = "ok"
   /\ env.dbUp) =>
    (db.status = "completed" /\ response.code = 200)

\* C6: an upload declared image/png whose bytes carry the %PDF signature is
\* answered with a validation error, no record is created for it, and neither
\* OCR nor the AI analysis is invoked.
C6_SignatureMismatchRejected ==
  (pc = "done" /\ file.present /\ file.mimetype = "image/png" /\ file.sig = "pdf") =>
    /\ response = [code |-> 400, error |-> "validation"]
    /\ db = NoRecord
    /\ engineLog = <<>>
    /\ aiCalls = 0

C8_ResponseMatchesStoredRecord ==
  pc = "done" =>
    /\ response.code = 200 => (db # NoRecord /\ db.status = "completed")
    /\ response.error \in {"ocr_failed", "ai_failed", "text_extraction_failed"} =>
         (db # NoRecord /\ db.status = "failed")

(***************************************************************************)
(* Claims about the multi-page batch (specification SpecBatch)             *)
(***************************************************************************)

\* C11: the batch fails as a whole only when every page has failed; when a
\* page has failed and another has not, the batch goes on and does not throw.
C11_BatchFailsOnlyIfAllPagesFail ==
  batch = "thrown" => \A p \in DOMAIN pages : pages[p].st = "failed"

(***************************************************************************)
(* Claims about the multi-chunk analysis (specification SpecMulti)         *)
(***************************************************************************)

ChunksWith(st) == {i \in DOMAIN chunks : chunks[i] = st}

AllChunksSettled == \A i \in DOMAIN chunks : chunks[i] \in {"ok", "failed"}

\* the successful chunks, in original chunk order
SuccessfulInOrder ==
  LET isOk(i) == chunks[i] = "ok" IN SelectSeq([i \in 1..Len(chunks) |-> i], isOk)

\* C12: when the analysis of every chunk has failed, the analysis call does
\* not hand its caller a result marked successful.
C12_AllChunksFailedIsFailure ==
  (aiResult.settled /\ AllChunksSettled /\ ChunksWith("ok") = {}) => ~aiResult.success

\* C13: when some chunks failed and at least one succeeded, the call returns a
\* result built from exactly the successful chunks, and a field of the result's
\* metadata carries the number of failed chunks.
C13_PartialFailureReported ==
  (aiResult.settled /\ AllChunksSettled /\ ChunksWith("ok") # {} /\ ChunksWith("failed") # {}) =>
    /\ aiResult.success
    /\ aiResult.sections = SuccessfulInOrder
    /\ \E k \in DOMAIN aiResult.meta : aiResult.meta[k] = Cardinality(ChunksWith("failed"))

\* C14: at no instant are more than concurrencyLimit (3) calls to the external
\* model in flight.
C14_BoundedCallsInFlight == CallsInFlight <= concurrencyLimit

\* a sequence of chunk indices in strictly increasing order
InChunkOrder(seq) == \A j, k \in DOMAIN seq : j < k => seq[j] < seq[k]

\* C15: the per-chunk results that the multi-chunk analysis assembles, and the
\* sections of the result it returns, are in original chunk order, whatever the
\* order in which the chunk calls completed.
C15_ResultsInChunkOrder ==
  /\ InChunkOrder(indicesOf(chunkAnalyses))
  /\ (aiResult.settled /\ aiResult.success) => InChunkOrder(aiResult.sections)

\* witness of C15: a result was returned for chunks that completed out of order
C15_CompletedOutOfOrder ==
  /\ multi = "returned"
  /\ aiResult.success
  /\ Len(aiResult.sections) = Len(chunks)
  /\ ~InChunkOrder(completion)

(***************************************************************************)
(* Claims about file validation (specification SpecValidate)               *)
(***************************************************************************)

\* the first bytes are not the signature of the declared MIME type
FailsSignatureCheck(f) ==
  /\ magicNumbers(f.mimetype) # "undefined"
  /\ f.sig # magicNumbers(f.mimetype)

\* C16: for every file whose bytes fail the signature check of its declared
\* MIME type, validate returns isValid = false with a non-empty errors list,
\* whatever the extension and the size.
C16_SignatureMismatchInvalid ==
  (ret.done /\ call.fn \in Validators /\ FailsSignatureCheck(call.arg)) =>
    (~ret.value.isValid /\ ret.value.errors # {})

(***************************************************************************)
(* Claims about chunkText (specification SpecChunk)                        *)
(***************************************************************************)

\* at most one sentence: no paragraph break inside, and no sentence
\* punctuation with text on both sides of it
IsAtomicUnit(chunk) ==
  /\ \A i \in DOMAIN chunk : matchLen("/\\n\\s*\\n/", chunk, i) = 0
  /\ ~\E i, j, k \in DOMAIN chunk :
        /\ i < j /\ j < k
        /\ ~IsPunct(chunk[i]) /\ ~IsSpace(chunk[i])
        /\ IsPunct(chunk[j])
        /\ ~IsPunct(chunk[k]) /\ ~IsSpace(chunk[k])

\* C17: chunk returns no empty chunk, and no chunk longer than the bound
\* unless that chunk is a single sentence.
C17_ChunksNonEmptyAndBounded ==
  (ret.done /\ call.fn \in Chunkers) =>
    \A k \in DOMAIN ret.value :
      /\ ret.value[k] # <<>>
      /\ Len(ret.value[k]) <= maxChunkLength \/ IsAtomicUnit(ret.value[k])

NotSpace(c) == ~IsSpace(c)

\* the content of a text: its characters without the white space
content(t) == SelectSeq(t, NotSpace)

IsPrefix(p, t) == Len(p) <= Len(t) /\ SubSeq(t, 1, Len(p)) = p

\* t is the pieces in order with nothing but separators (sentence punctuation)
\* before, between and after them
RECURSIVE Rebuilds(_, _)
Rebuilds(t, pieces) ==
  IF pieces = <<>> THEN \A i \in DOMAIN t : IsPunct(t[i])
  ELSE \E g \in 0..Len(t) :
         /\ \A i \in 1..g : IsPunct(t[i])
         /\ IsPrefix(Head(pieces), SubSeq(t, g + 1, Len(t)))
         /\ Rebuilds(SubSeq(t, g + 1 + Len(Head(pieces)), Len(t)), Tail(pieces))

\* C18: the chunks of chunk(T), rejoined in order with the separators that
\* stood between them put back, give the content of T; white space is not
\* compared.
C18_RejoinReconstructs ==
  (ret.done /\ call.fn \in Chunkers) =>
    Rebuilds(content(call.arg), [k \in DOMAIN ret.value |-> content(ret.value[k])])

(***************************************************************************)
(* Claims about response parsing (specification SpecParse)                 *)
(***************************************************************************)

\* C19: for every model response, missing and empty ones included, the parser
\* returns to its caller (no exception leaves it) and what it returns has a
\* summary and a list of suggestions.
C19_ParseNeverThrows ==
  (ret.done /\ call.fn \in Parsers) =>
    /\ ~ret.value.threw
    /\ ret.value.analysis # "undefined"
    /\ Len(ret.value.suggestions) >= 0

\* C20: every suggestion of a parsed result has a category and a priority of
\* the enumerated sets, the defaults "general" and "medium" included.
C20_SuggestionsWithinEnums ==
  (ret.done /\ call.fn \in Parsers /\ ~ret.value.threw) =>
    \A k \in DOMAIN ret.value.suggestions :
      /\ ret.value.suggestions[k].category \in CategoryEnum \cup {"general"}
      /\ ret.value.suggestions[k].priority \in PriorityEnum

(***************************************************************************)
(* Claims about deduplication (specification SpecDedup)                    *)
(***************************************************************************)

\* the key of the documentation: the category and the leading characters
KeyOf(s) == <<s.category, substring0(s.suggestion, keyPrefixLength)>>

\* the items of a list that are the first of their key, in the order of the list
RECURSIVE FirstOfEachKey(_, _)
FirstOfEachKey(suggestions, k) ==
  IF k > Len(suggestions) THEN <<>>
  ELSE IF \E j \in 1..(k - 1) : KeyOf(suggestions[j]) = KeyOf(suggestions[k])
       THEN FirstOfEachKey(suggestions, k + 1)
       ELSE <<suggestions[k]>> \o FirstOfEachKey(suggestions, k + 1)

\* C21: deduplication returns, in the original order, exactly the first
\* suggestion of every (category, leading characters) key: later ones with the
\* same key are dropped, suggestions that differ in category or in leading
\* characters are all kept.
C21_FirstOfEachKeyKept ==
  (ret.done /\ call.fn = "deduplicateSuggestions" /\ ~ret.value.threw) =>
    ret.value.suggestions = FirstOfEachKey(call.arg, 1)

(***************************************************************************)
(* Claims about OCR results (specification SpecConfidence)                 *)
(***************************************************************************)

\* the words whose confidence is present and not zero
CountedWords(data) == SelectSeq(data.words, isValidWord)

\* q is the mean of the counted confidences, brought from 0..100 to 0..1
IsMeanOfCounted(q, data) ==
  IF CountedWords(data) = <<>> THEN q.num = 0
  ELSE q.num * Len(CountedWords(data)) * ConfidenceScale = sumConfidence(CountedWords(data)) * q.den

\* C22: the confidence of every OCR result lies in [0,1] and is the mean of
\* the confidences of the words that have one other than zero.
C22_ConfidenceIsUnitMean ==
  (ret.done /\ call.fn \in OcrEntryPoints /\ ~ret.value.threw) =>
    /\ 0 <= ret.value.confidence.num
    /\ ret.value.confidence.num <= ret.value.confidence.den
    /\ IsMeanOfCounted(ret.value.confidence, call.arg)

\* C23: a recognition result without words, or whose words all have
\* confidence zero, is returned with confidence 0 and empty text; no exception
\* reaches the caller.
C23_NoTokensGivesEmptyResult ==
  (ret.done /\ call.fn \in OcrEntryPoints /\ CountedWords(call.arg) = <<>>) =>
    /\ ~ret.value.threw
    /\ ret.value.confidence.num = 0
    /\ ret.value.textLength = 0

(***************************************************************************)
(* Claims about pending calls (specification SpecCallsFair)                *)
(***************************************************************************)

\* the function that awaits the call has returned or thrown
CallEnded == rpc \in {"returned", "thrown"}

\* C24: every external call is bounded by a timeout, so the function that
\* awaits it ends even when the call never returns.
C24_NoCallBlocksForever == <>CallEnded

(***************************************************************************)
(* Claims about text cleaning (specification SpecClean)                    *)
(***************************************************************************)

\* the character at position i of s has a letter immediately on both sides
FlankedByLetters(s, i) == 1 < i /\ i < Len(s) /\ IsLetter(s[i - 1]) /\ IsLetter(s[i + 1])

\* the character at position i of s is a digit next to another digit
InNumericRun(s, i) ==
  /\ IsDigit(s[i])
  /\ \/ i > 1 /\ IsDigit(s[i - 1])
     \/ i < Len(s) /\ IsDigit(s[i + 1])

\* the replacements made on s, position by position
afterLookalikes(s) == replaceLookalike(replaceLookalike(s, "0", "O"), "1", "I")

\* C25: cleaning changes a character only if it is a 0 or a 1 with a letter
\* immediately on both sides, and then into O or I; a digit next to another
\* digit is never changed.
C25_OnlyFlankedLookalikesReplaced ==
  (ret.done /\ call.fn = "cleanExtractedText") =>
    LET s == beforeLookalikes(call.arg)
        f == afterLookalikes(s)
    IN /\ ret.value = trim(f)
       /\ Len(f) = Len(s)
       /\ \A i \in 1..Len(s) :
            /\ f[i] # s[i] => /\ FlankedByLetters(s, i)
                              /\ <<s[i], f[i]>> \in {<<"0", "O">>, <<"1", "I">>}
            /\ InNumericRun(s, i) => f[i] = s[i]

\* C25 (witness): a text with a 0 between two letters and a number of two
\* digits has been cleaned, the first replaced, the second kept
C25_ReplacedAndKept ==
  /\ ret.done
  /\ call.fn = "cleanExtractedText"
  /\ call.arg = <<"a", "0", "a", "1", "0">>
  /\ ret.value = <<"a", "O", "a", "1", "0">>

\* C25 (as stated, on the raw text): cleaning puts an O or an I into the text
\* only where the raw text has a 0 or a 1 with a letter immediately on both
\* sides.
C25_ReplacedOnlyIfFlankedInRaw ==
  (/\ ret.done
   /\ call.fn = "cleanExtractedText"
   /\ \E i \in DOMAIN ret.value : ret.value[i] \in {"O", "I"}) =>
    \E i \in DOMAIN call.arg : IsDigit(call.arg[i]) /\ FlankedByLetters(call.arg, i)

\* C28: the cleaned text has no two consecutive white-space characters and no
\* control character.
C28_NoWhitespaceRunNoControl ==
  (ret.done /\ call.fn \in Cleaners) =>
    /\ \A i \in 1..(Len(ret.value) - 1) :
         ~(IsWhitespace(ret.value[i]) /\ IsWhitespace(ret.value[i + 1]))
    /\ \A i \in DOMAIN ret.value : IsPrintable(ret.value[i])

(***************************************************************************)
(* Claims about the accumulation of validation errors (SpecValidate)       *)
(***************************************************************************)

\* the checks of each validator that the file fails, by the error they push
FailedChecks(fn, f) ==
  IF fn = "validateFile"
  THEN {e \in {"too_large", "extension_not_allowed", "type_not_allowed", "suspicious_name",
               "signature_mismatch"} :
          \/ e = "too_large" /\ f.tooBig
          \/ e = "extension_not_allowed" /\ f.ext \notin allowedExtensions
          \/ e = "type_not_allowed" /\ f.mimetype \notin allowedMimeTypes
          \/ e = "suspicious_name" /\ isSuspiciousFileName(f)
          \/ e = "signature_mismatch" /\ f.hasPath /\ ~validateMagicNumbers(f)}
  ELSE {e \in {"too_large", "unsupported_type", "invalid_mime"} :
          \/ e = "too_large" /\ f.tooBig
          \/ e = "unsupported_type" /\ f.ext \notin SupportedExtensions
          \/ e = "invalid_mime" /\ f.mimetype \notin SupportedMimeTypes}

\* C26: every check that fails has its error in the result, whatever other
\* checks failed, and isValid is true exactly when there is no error.
C26_ErrorsAccumulate ==
  (ret.done /\ call.fn \in Validators) =>
    /\ ret.value.errors = FailedChecks(call.fn, call.arg)
    /\ ret.value.isValid <=> (ret.value.errors = {})

\* C26 (witness): a file that fails the size, the extension, the name and
\* the signature check has been validated and carries all four errors
C26_FourErrors ==
  /\ ret.done
  /\ call.fn = "validateFile"
  /\ ret.value.errors = {"too_large", "extension_not_allowed", "suspicious_name",
                         "signature_mismatch"}
  /\ ~ret.value.isValid

(***************************************************************************)
(* Claims about the order of preference in chunking (SpecChunk)            *)
(***************************************************************************)

\* p occurs in c as it is, character by character
IsInfix(p, c) == \E i \in 1..(Len(c) - Len(p) + 1) : SubSeq(c, i, i + Len(p) - 1) = p

\* p is whole inside one of the chunks
WholeInOneChunk(p, chunkList) == \E k \in DOMAIN chunkList : IsInfix(p, chunkList[k])

\* the paragraphs and the sentences of a paragraph, as each chunker separates them
ParagraphsOf(fn, t) == IF fn = "chunkText" THEN split("/\\n\\s*\\n/", t) ELSE split("\\n\\n", t)

SentencesOf(fn, p) == IF fn = "chunkText" THEN split("/[.!?]+/", p) ELSE split(". ", p)

\* C27: of a text longer than the bound, every paragraph within the bound is
\* whole inside one chunk (sentence splitting touches only longer paragraphs),
\* and every sentence within the bound of a longer paragraph is whole inside
\* one chunk (slicing touches only longer sentences).
C27_ParagraphsThenSentencesKept ==
  (ret.done /\ call.fn \in Chunkers /\ Len(call.arg) > maxChunkLength) =>
    LET paragraphs == ParagraphsOf(call.fn, call.arg) IN
      \A k \in DOMAIN paragraphs :
        IF Len(paragraphs[k]) <= maxChunkLength
        THEN hasContent(paragraphs[k]) => WholeInOneChunk(paragraphs[k], ret.value)
        ELSE LET sentences == SentencesOf(call.fn, paragraphs[k]) IN
               \A j \in DOMAIN sentences :
                 (Len(sentences[j]) <= maxChunkLength /\ hasContent(sentences[j])) =>
                   WholeInOneChunk(sentences[j], ret.value)

\* C27 (witness): chunkText has cut a text longer than the bound into several
\* chunks, and a paragraph within the bound that holds two sentences is whole
\* inside one of them
C27_ShortParagraphOfTwoSentences ==
  /\ ret.done
  /\ call.fn = "chunkText"
  /\ Len(call.arg) > maxChunkLength
  /\ Len(ret.value) >= 2
  /\ \E k \in DOMAIN ParagraphsOf(call.fn, call.arg) :
       LET p == ParagraphsOf(call.fn, call.arg)[k] IN
         /\ Len(p) <= maxChunkLength
         /\ Len(SentencesOf(call.fn, p)) = 2
         /\ \A j \in 1..2 : hasContent(SentencesOf(call.fn, p)[j])
         /\ WholeInOneChunk(p, ret.value)

(***************************************************************************)
(* Claims about deleteFile (specification SpecDelete)                      *)
(***************************************************************************)

\* C30: deleteFile removes a file only if the file lies inside the upload
\* directory; for a name that resolves outside it nothing is deleted.
C30_DeletesOnlyInsideUploadDir ==
  (ret.done /\ call.fn = "deleteFile" /\ ret.value.deleted # <<>>) =>
    startsWith(ret.value.deleted, uploadDir \o <<"/">>)

(***************************************************************************)
(* Claims about the lazily created OpenAI client (specification SpecMulti) *)
(***************************************************************************)

\* the OpenAI analyzer goes from its queued chunks to the chat-completion
\* calls of analyzeSingleChunk
ReachesChatCompletion == aiImpl = "openai" /\ QueuedChunks # {} /\ chunks' # chunks

\* C29: whenever the OpenAI analyzer comes to issue a chat-completion request
\* its client has been initialised, and a client once created is not created
\* again.
C29_ClientReadyAtRequest ==
  [][/\ ReachesChatCompletion => openai = "client"
     /\ openai = "client" => openai' = "client"]_vars

====
